---- MODULE Spec2Model ----
(***************************************************************************)
(* A model of the SPDY/3 dissector of packet-spdy.c: the driver loop       *)
(* dissect_spdy, the frame dissector dissect_spdy_frame with its header    *)
(* block decompression and per-packet memo, the stream store and the DATA  *)
(* frame reassembly.  Buffers are sequences of bytes (0..255); a byte at   *)
(* C offset o is element o + 1 of the sequence.                            *)
(***************************************************************************)
EXTENDS Integers, Sequences, FiniteSets, TLC

VARIABLES
  prefs,     \* spdy_assemble_entity_bodies, spdy_decompress_headers, spdy_decompress_body
  conv,      \* spdy_conv_t of the one conversation (exists = FALSE before creation)
  capture,   \* the packets dissected so far: buffer, per-packet proto data (pfd)
             \* and, as history, the preferences and frame log of the first visit
  call       \* what the last dissect_spdy call did and returned

vars == <<prefs, conv, capture, call>>

(***************************************************************************)
(* Bounds of the model.                                                    *)
(***************************************************************************)
MaxPackets == 2       \* packets of a capture
MaxFrames == 2        \* whole frames in one buffer of the driver family
MaxPrefChanges == 1   \* preference changes during a capture

(***************************************************************************)
(* Program constants.                                                      *)
(***************************************************************************)
\* faulty variant: version 2 is let through
MIN_SPDY_VERSION_too_low == 3 - 1
MIN_SPDY_VERSION == 3
SPDY_FLAG_FIN == 1
SPDY_DATA == 0
SPDY_SYN_STREAM == 1
SPDY_SYN_REPLY == 2
SPDY_RST_STREAM == 3
SPDY_SETTINGS == 4
SPDY_NOOP == 5
SPDY_PING == 6
SPDY_GOAWAY == 7
SPDY_HEADERS == 8
SPDY_WINDOW_UPDATE == 9
SPDY_CREDENTIAL == 10
SPDY_INVALID == 11
DESEGMENT_ONE_MORE_SEGMENT == 268435455
\* adler32 of spdy_dictionary, 0xe3c6a7c2, as get_or_create_spdy_conversation_data
\* computes it.  32-bit words are held as their two's complement value, so
\* that every word fits TLC's 32-bit integers: 0xe3c6a7c2 is -473520190.
SpdyDictionaryAdler == -473520190

(***************************************************************************)
(* Nullable values: <<>> is NULL, <<x>> is a pointer to x.                 *)
(***************************************************************************)
Null == <<>>
Ptr(x) == <<x>>
IsNull(p) == Len(p) = 0
Deref(p) == p[1]

(***************************************************************************)
(* tvbuff accessors.  An access outside the buffer throws an exception in  *)
(* the host library; Has() is the bounds test the callers below apply      *)
(* before each read.                                                       *)
(***************************************************************************)
tvb_length_remaining(tvb, offset) ==
  IF offset > Len(tvb) THEN -1 ELSE Len(tvb) - offset

Has(tvb, offset, n) == offset >= 0 /\ n >= 0 /\ offset + n <= Len(tvb)

tvb_get_guint8(tvb, offset) == tvb[offset + 1]

tvb_get_ntohs(tvb, offset) == tvb[offset + 1] * 256 + tvb[offset + 2]

\* faulty variant: the three bytes are read in little-endian order
tvb_get_letoh24(tvb, offset) ==
  tvb[offset + 1] + tvb[offset + 2] * 256 + tvb[offset + 3] * 65536

tvb_get_ntoh24(tvb, offset) ==
  tvb[offset + 1] * 65536 + tvb[offset + 2] * 256 + tvb[offset + 3]

\* a 32-bit word, as its two's complement value (a guint32 of 2^31 or more
\* is the negative number with the same bits)
tvb_get_ntohl(tvb, offset) ==
  (IF tvb[offset + 1] >= 128 THEN tvb[offset + 1] - 256 ELSE tvb[offset + 1]) * 16777216
    + tvb[offset + 2] * 65536 + tvb[offset + 3] * 256 + tvb[offset + 4]

\* faulty variant: the comparison is never true
UnsignedGreater_never(a, b) == FALSE

\* unsigned comparison a > b of a 32-bit word with a non-negative number
UnsignedGreater(a, b) == a < 0 \/ a > b

\* tvb_get_bits32(tvb, offset * 8 + 1, 31): the low 31 bits of the word
tvb_get_bits31(tvb, offset) ==
  (tvb[offset + 1] % 128) * 16777216 + tvb[offset + 2] * 65536
    + tvb[offset + 3] * 256 + tvb[offset + 4]

\* tvb_get_bits16(tvb, offset * 8 + 1, 15): the low 15 bits of the half word
tvb_get_bits15(tvb, offset) == tvb_get_ntohs(tvb, offset) % 32768

\* tvb_get_bits8(tvb, offset << 3, 1): the top bit of the byte
tvb_get_bit0(tvb, offset) == tvb[offset + 1] \div 128

Bytes(tvb, offset, n) == SubSeq(tvb, offset + 1, offset + n)

(***************************************************************************)
(* C strings: bytes up to the first NUL; ASCII case folding.               *)
(***************************************************************************)
RECURSIVE CStr(_)
CStr(s) == IF s = <<>> \/ Head(s) = 0 THEN <<>> ELSE <<Head(s)>> \o CStr(Tail(s))

tolower(c) == IF c >= 65 /\ c <= 90 THEN c + 32 ELSE c

\* faulty variant: only the blank is white space
isspace_blank_only(c) == c = 32

isspace(c) == c = 32 \/ (c >= 9 /\ c <= 13)

LowerStr(s) == [i \in 1..Len(s) |-> tolower(s[i])]

g_ascii_strcasecmp_eq(a, b) == LowerStr(a) = LowerStr(b)

STR_method == <<109, 101, 116, 104, 111, 100>>
STR_status == <<115, 116, 97, 116, 117, 115>>
STR_url == <<117, 114, 108>>
STR_version == <<118, 101, 114, 115, 105, 111, 110>>
STR_content_type == <<99, 111, 110, 116, 101, 110, 116, 45, 116, 121, 112, 101>>
STR_content_encoding ==
  <<99, 111, 110, 116, 101, 110, 116, 45, 101, 110, 99, 111, 100, 105, 110, 103>>
STR_identity == <<105, 100, 101, 110, 116, 105, 116, 121>>
STR_gzip == <<103, 122, 105, 112>>
STR_deflate == <<100, 101, 102, 108, 97, 116, 101>>

(***************************************************************************)
(* The zlib inflater behind rqst_decompressor and rply_decompressor.       *)
(* A z_stream is modelled by what the dissector can observe of it:         *)
(* alloc (the pointer is non-NULL and inflateInit ran), mode (HEAD before  *)
(* the zlib header, DICT while a preset dictionary is awaited, RUN inside  *)
(* the deflate stream, BAD after a data error), pos (the number of         *)
(* sync-flushed segments inflated so far) and adler (the dictionary id the *)
(* stream asked for).  The zlib header is the real one: CMF, FLG with the  *)
(* FDICT bit, then a 4-byte DICTID.  A deflate segment is abstracted to    *)
(* two bytes <<k, p>>: k is the position in the sender's stream at which   *)
(* the segment was produced and p selects its plaintext; a segment inflates*)
(* only at the position it was produced for, as the shared history of a    *)
(* deflate stream demands.                                                  *)
(***************************************************************************)
NullZ == [alloc |-> FALSE, mode |-> "HEAD", pos |-> 0, adler |-> 0]
InitZ == [alloc |-> TRUE, mode |-> "HEAD", pos |-> 0, adler |-> 1]

U32(n) ==
  <<(n \div 16777216) % 256, (n \div 65536) % 256, (n \div 256) % 256, n % 256>>

NVPair(name, value) == U32(Len(name)) \o name \o U32(Len(value)) \o value

STR_text_plain == <<116, 101, 120, 116, 47, 112, 108, 97, 105, 110>>
STR_Text_Plain_q == <<84, 101, 120, 116, 47, 80, 108, 97, 105, 110, 59, 32, 113, 61, 49>>
STR_200 == <<50, 48, 48>>

\* The name/value blocks the modelled peers compress, by selector byte.
PlainText(p) ==
  CASE p = 1 -> U32(1) \o NVPair(STR_content_type, STR_Text_Plain_q)
    [] p = 2 -> U32(2) \o NVPair(STR_content_type, STR_text_plain)
                       \o NVPair(STR_content_encoding, STR_gzip)
    [] p = 3 -> U32(1) \o NVPair(STR_status, STR_200)
    [] p = 4 -> U32(255)
    [] p = 5 -> U32(2) \o NVPair(STR_status, STR_200)
    [] p = 6 -> U32(1) \o U32(6) \o <<115, 116>>
    [] p = 7 -> <<0, 0>>
    [] p = 8 -> U32(2) \o NVPair(STR_content_type, STR_text_plain)
                       \o NVPair(STR_content_encoding, <<>>)
    [] OTHER -> U32(0)

InflateResult(ret, z, out, rest) == [ret |-> ret, z |-> z, out |-> out, rest |-> rest]

\* inflate() inside the deflate stream
InflateBody(z, in) ==
  IF Len(in) < 2
    THEN InflateResult("Z_BUF_ERROR", z, <<>>, in)
    ELSE IF in[1] = z.pos
      THEN InflateResult("Z_OK", [z EXCEPT !.pos = z.pos + 1],
                         PlainText(in[2]), SubSeq(in, 3, Len(in)))
      ELSE InflateResult("Z_DATA_ERROR", [z EXCEPT !.mode = "BAD"], <<>>, in)

\* inflate(decomp, Z_SYNC_FLUSH) on the input `in`
inflate(z, in) ==
  CASE z.mode = "BAD" -> InflateResult("Z_DATA_ERROR", z, <<>>, in)
    [] z.mode = "DICT" -> InflateResult("Z_NEED_DICT", z, <<>>, in)
    [] z.mode = "RUN" -> InflateBody(z, in)
    [] OTHER ->
       IF Len(in) < 2
         THEN InflateResult("Z_BUF_ERROR", z, <<>>, in)
         ELSE IF in[1] % 16 # 8 \/ (in[1] * 256 + in[2]) % 31 # 0
           THEN InflateResult("Z_DATA_ERROR", [z EXCEPT !.mode = "BAD"], <<>>, in)
           ELSE IF (in[2] \div 32) % 2 = 1
             THEN IF Len(in) < 6
               THEN InflateResult("Z_BUF_ERROR", z, <<>>, in)
               ELSE InflateResult("Z_NEED_DICT",
                                  [z EXCEPT !.mode = "DICT",
                                            !.adler = tvb_get_ntohl(in, 2)],
                                  <<>>, SubSeq(in, 7, Len(in)))
             ELSE LET r == InflateBody([z EXCEPT !.mode = "RUN"], SubSeq(in, 3, Len(in)))
                  IN IF r.ret = "Z_BUF_ERROR"
                       THEN InflateResult("Z_OK", r.z, <<>>, r.rest)
                       ELSE r

\* inflateSetDictionary(decomp, spdy_dictionary, sizeof(spdy_dictionary))
inflateSetDictionary(z) ==
  IF z.mode = "DICT" /\ z.adler = SpdyDictionaryAdler
    THEN [ret |-> "Z_OK", z |-> [z EXCEPT !.mode = "RUN"]]
    ELSE [ret |-> "Z_DATA_ERROR", z |-> z]

(***************************************************************************)
(* spdy_decompress_header_block: NULL (ok = FALSE) unless the final        *)
(* retcode is Z_OK; z is the inflater afterwards.                          *)
(***************************************************************************)
\* lines 1214-1216: sd is what inflateSetDictionary returned
AfterSetDictionary(sd, rest) ==
  IF sd.ret = "Z_OK" THEN inflate(sd.z, rest) ELSE InflateResult(sd.ret, sd.z, <<>>, rest)

\* faulty variant: the dictionary is never installed
AfterInflate_no_dictionary(r1, dictionary_id) == r1

\* lines 1208-1219: r1 is what the first inflate() returned
AfterInflate(r1, dictionary_id) ==
  IF r1.ret = "Z_NEED_DICT"
    THEN IF r1.z.adler # dictionary_id
           THEN r1
           ELSE AfterSetDictionary(inflateSetDictionary(r1.z), r1.rest)
    ELSE r1

\* lines 1222-1235: r2 holds the final retcode
HeaderBlockResult(r2) == [ok |-> r2.ret = "Z_OK", z |-> r2.z, out |-> r2.out]

spdy_decompress_header_block(z, dictionary_id, block) ==
  HeaderBlockResult(AfterInflate(inflate(z, block), dictionary_id))

(***************************************************************************)
(* Connection state and stream store.                                      *)
(***************************************************************************)
NoConv ==
  [exists |-> FALSE, rqst |-> NullZ, rply |-> NullZ, dictionary_id |-> 0,
   streams |-> <<>>]

\* lines 474-476: the routine registered with register_postseq_cleanup_routine;
\* it prints when debugging and touches no connection state
reset_decompressors(cv) == cv

\* conversation_get_proto_data / se_alloc0 and inflateInit on first use
get_or_create_spdy_conversation_data(cv, pf) ==
  IF cv.exists
    THEN cv
    ELSE [exists |-> TRUE,
          rqst |-> IF pf.decompress_headers THEN InitZ ELSE NullZ,
          rply |-> IF pf.decompress_headers THEN InitZ ELSE NullZ,
          dictionary_id |-> IF pf.decompress_headers THEN SpdyDictionaryAdler ELSE 0,
          streams |-> <<>>]

spdy_get_stream_info(cv, stream_id) ==
  IF stream_id >= Len(cv.streams) THEN Null ELSE cv.streams[stream_id + 1]

NewStreamInfo(content_type, content_type_params, content_encoding) ==
  [content_type |-> content_type,
   content_type_parameters |-> content_type_params,
   content_encoding |-> content_encoding,
   data_frames |-> <<>>,
   assembled_data |-> Null,
   num_data_frames |-> 0]

\* ok = FALSE when DISSECTOR_ASSERT (slot is NULL) fails and throws
spdy_save_stream_info(cv, stream_id, content_type, content_type_params, content_encoding) ==
  LET si == NewStreamInfo(content_type, content_type_params, content_encoding)
      grown == IF stream_id < Len(cv.streams)
                 THEN cv.streams
                 ELSE cv.streams \o [i \in 1..(stream_id + 1 - Len(cv.streams)) |-> Null]
  IN IF stream_id < Len(cv.streams) /\ ~IsNull(cv.streams[stream_id + 1])
       THEN [ok |-> FALSE, conv |-> cv]
       ELSE [ok |-> TRUE,
             conv |-> [cv EXCEPT !.streams = [grown EXCEPT ![stream_id + 1] = Ptr(si)]]]

SetStream(cv, stream_id, si) ==
  [cv EXCEPT !.streams[stream_id + 1] = Ptr(si)]

\* faulty variant: the chunk is appended and the count is left as it was
spdy_add_data_chunk_uncounted(cv, stream_id, frame, data, length) ==
  LET sp == spdy_get_stream_info(cv, stream_id)
  IN IF IsNull(sp)
       THEN cv
       ELSE SetStream(cv, stream_id,
                      [Deref(sp) EXCEPT !.data_frames =
                         Append(@, [data |-> Ptr(data), length |-> length,
                                    framenum |-> frame])])

spdy_add_data_chunk(cv, stream_id, frame, data, length) ==
  LET sp == spdy_get_stream_info(cv, stream_id)
  IN IF IsNull(sp)
       THEN cv
       ELSE LET si == Deref(sp)
                df == [data |-> Ptr(data), length |-> length, framenum |-> frame]
            IN SetStream(cv, stream_id,
                         [si EXCEPT !.data_frames = Append(si.data_frames, df),
                                    !.num_data_frames = si.num_data_frames + 1])

spdy_increment_data_chunk_count(cv, stream_id) ==
  LET sp == spdy_get_stream_info(cv, stream_id)
  IN IF IsNull(sp)
       THEN cv
       ELSE SetStream(cv, stream_id,
                      [Deref(sp) EXCEPT !.num_data_frames = Deref(sp).num_data_frames + 1])

spdy_get_num_data_frames(cv, stream_id) ==
  LET sp == spdy_get_stream_info(cv, stream_id)
  IN IF IsNull(sp) THEN 0 ELSE Deref(sp).num_data_frames

(***************************************************************************)
(* Reassembly of DATA frames.                                              *)
(***************************************************************************)
\* faulty variant: the chunks are copied newest first
RECURSIVE ConcatChunks_newest_first(_)
ConcatChunks_newest_first(dfs) ==
  IF dfs = <<>> THEN <<>>
  ELSE ConcatChunks_newest_first(Tail(dfs))
         \o (IF IsNull(Head(dfs).data) THEN <<>> ELSE Deref(Head(dfs).data))

RECURSIVE ConcatChunks(_)
ConcatChunks(dfs) ==
  IF dfs = <<>> THEN <<>>
  ELSE (IF IsNull(Head(dfs).data) THEN <<>> ELSE Deref(Head(dfs).data))
         \o ConcatChunks(Tail(dfs))

RECURSIVE SumLengths(_)
SumLengths(dfs) ==
  IF dfs = <<>> THEN 0 ELSE Head(dfs).length + SumLengths(Tail(dfs))

\* faulty variant: the body is assembled again at every FIN
NeedsAssembly_always(si) == TRUE

\* line 644: the chunks are concatenated if it hasn't already been done
NeedsAssembly(si) == IsNull(si.assembled_data)

\* null: no stream record.  crash: memcpy from a chunk whose data was freed
\* (df->data == NULL with df->length > 0).
spdy_assemble_data_frames(cv, stream_id) ==
  LET sp == spdy_get_stream_info(cv, stream_id)
  IN IF IsNull(sp)
       THEN [null |-> TRUE, crash |-> FALSE, conv |-> cv]
       ELSE LET si == Deref(sp)
                datalen == SumLengths(si.data_frames)
            IN IF ~NeedsAssembly(si) \/ si.data_frames = <<>> \/ datalen = 0
                 THEN [null |-> FALSE, crash |-> FALSE, conv |-> cv]
                 ELSE IF \E i \in 1..Len(si.data_frames) :
                           IsNull(si.data_frames[i].data) /\ si.data_frames[i].length > 0
                   THEN [null |-> FALSE, crash |-> TRUE, conv |-> cv]
                   ELSE [null |-> FALSE, crash |-> FALSE,
                         conv |-> SetStream(cv, stream_id,
                                    [si EXCEPT !.assembled_data =
                                                 Ptr(ConcatChunks(si.data_frames))])]

\* faulty variant: the assembled body is released along with the chunks
spdy_discard_data_frames_and_body(si) ==
  [si EXCEPT !.data_frames =
               [i \in 1..Len(si.data_frames) |-> [si.data_frames[i] EXCEPT !.data = Null]],
             !.assembled_data = Null]

\* lines 687-707: every chunk's buffer is freed; the list is kept
spdy_discard_data_frames(si) ==
  [si EXCEPT !.data_frames =
     [i \in 1..Len(si.data_frames) |-> [si.data_frames[i] EXCEPT !.data = Null]]]

\* tvb_uncompress: a body inflates when it starts with the gzip magic byte;
\* the inflated entity is modelled as the bytes that follow it.
spdy_tvb_child_uncompress(data) ==
  IF Len(data) >= 1 /\ data[1] = 31 THEN Ptr(Tail(data)) ELSE Null

SubCall(handle, tvb) == [handle |-> handle, tvb |-> tvb]

\* faulty variant: every DATA frame is taken for the last of its stream
HasFin_always(flags) == TRUE

\* flags & SPDY_FLAG_FIN
HasFin(flags) == (flags % 2) = SPDY_FLAG_FIN

DataResult(cv, status, marks, calls) ==
  [conv |-> cv, status |-> status, marks |-> marks, calls |-> calls]

\* lines 989-1050: release the chunks, then the sub-dissector checks
DispatchBody(ctx, cv, stream_id, data_tvb, next_tvb, marks) ==
  LET si == Deref(spdy_get_stream_info(cv, stream_id))
      cv2 == SetStream(cv, stream_id, spdy_discard_data_frames(si))
      handle == IF ctx.host.port_handle THEN "http.port"
                ELSE IF ctx.host.media_type_handle THEN "media_type"
                ELSE "none"
      dissected == handle # "none" /\ ctx.host.sub_dissected
      first == IF handle # "none" THEN <<SubCall(handle, data_tvb)>> ELSE <<>>
      \* si->content_type is never NULL in a saved record
      second == IF ~dissected THEN <<SubCall("media", next_tvb)>>
                ELSE <<SubCall("data", next_tvb)>>
  IN DataResult(cv2, "ok", marks, first \o second)

dissect_spdy_data_payload(tvb, offset, ctx, cv, stream_id, flags, frame_length) ==
  LET num_data_frames == spdy_get_num_data_frames(cv, stream_id)
      fin == HasFin(flags)
      next_tvb == IF frame_length # 0 THEN Ptr(Bytes(tvb, offset, frame_length)) ELSE Null
      is_single_chunk == IF frame_length # 0
                           THEN num_data_frames = 0 /\ fin
                           ELSE num_data_frames = 1
      cv1 == IF frame_length # 0 /\ ~ctx.visited /\ ~is_single_chunk
               THEN IF ctx.prefs.assemble_entity_bodies
                      THEN spdy_add_data_chunk(cv, stream_id, ctx.num,
                                               Bytes(tvb, offset, frame_length),
                                               frame_length)
                      ELSE spdy_increment_data_chunk_count(cv, stream_id)
               ELSE cv
  IN IF frame_length = 0 /\ num_data_frames = 0
       THEN DataResult(cv, "ok", {}, <<>>)
     ELSE IF ~fin
       THEN DataResult(cv1, "ok", {"partial entity body"}, <<>>)
     ELSE
       LET asm == spdy_assemble_data_frames(cv1, stream_id)
       IN IF asm.crash THEN DataResult(cv1, "crash", {}, <<>>)
          ELSE IF asm.null THEN DataResult(cv1, "ok", {}, <<>>)
          ELSE
            LET cv2 == asm.conv
                si == Deref(spdy_get_stream_info(cv2, stream_id))
                have_entire_body == is_single_chunk \/ ctx.prefs.assemble_entity_bodies
                data_tvb == IF IsNull(si.assembled_data) THEN next_tvb
                            ELSE si.assembled_data
                m0 == IF IsNull(si.assembled_data) THEN {} ELSE {"Assembled entity body"}
                encoded == ~IsNull(si.content_encoding)
                           /\ ~g_ascii_strcasecmp_eq(Deref(si.content_encoding), STR_identity)
            IN IF ~have_entire_body THEN DataResult(cv2, "ok", {}, <<>>)
               ELSE IF ~encoded THEN DispatchBody(ctx, cv2, stream_id, data_tvb, next_tvb, m0)
               ELSE IF IsNull(data_tvb)
                 \* tvb_length(NULL): DISSECTOR_ASSERT throws
                 THEN DataResult(cv2, "exc", m0, <<>>)
               ELSE
                 LET ce == Deref(si.content_encoding)
                     uncomp == IF ctx.prefs.decompress_body
                                  /\ (g_ascii_strcasecmp_eq(ce, STR_gzip)
                                      \/ g_ascii_strcasecmp_eq(ce, STR_deflate))
                                 THEN spdy_tvb_child_uncompress(Deref(data_tvb))
                                 ELSE Null
                     m1 == m0 \cup {"Content-encoded entity body"}
                 IN IF IsNull(uncomp)
                      THEN DataResult(cv2, "ok",
                                      m1 \cup (IF ctx.prefs.decompress_body
                                                 THEN {"Decompression failed"} ELSE {}),
                                      <<SubCall("data", data_tvb)>>)
                      ELSE DispatchBody(ctx, cv2, stream_id, uncomp, next_tvb,
                                        m1 \cup {"Uncompressed entity body"})

(***************************************************************************)
(* SETTINGS payload: -1 on a malformed frame, else length.  exc: with a    *)
(* tree, an entry is read that lies outside the buffer.                    *)
(***************************************************************************)
dissect_spdy_settings_payload(tvb, offset, ctx, length) ==
  IF length < 4
    THEN [status |-> "ok", ret |-> -1,
          marks |-> {"SETTINGS frame too small for number of entries field"}]
    ELSE LET num_entries == tvb_get_ntohl(tvb, offset)
             \* num_entries * 8 in int arithmetic, wrapping to 32 bits
             low == num_entries % 536870912
             needed == IF low >= 268435456 THEN (low - 536870912) * 8 ELSE low * 8
         IN IF length < needed
              THEN [status |-> "ok", ret |-> -1, marks |-> {"SETTINGS frame too small"}]
              ELSE IF ctx.tree /\ num_entries > 0
                      /\ num_entries > (Len(tvb) - (offset + 4)) \div 8
                THEN [status |-> "exc", ret |-> 0, marks |-> {}]
                ELSE [status |-> "ok", ret |-> length, marks |-> {}]

(***************************************************************************)
(* Per-packet memo of decompressed header blocks (frame proto data).       *)
(***************************************************************************)
spdy_save_header_block(pfd, stream_id, frame_type, header, length) ==
  Append(pfd, [stream_id |-> stream_id, header_block |-> header,
               header_block_len |-> length, frame_type |-> frame_type])

\* faulty variant: the memo is never found
spdy_find_saved_header_block_miss(pfd, stream_id, frame_type) == Null

spdy_find_saved_header_block(pfd, stream_id, frame_type) ==
  LET hits == {i \in 1..Len(pfd) :
                 pfd[i].stream_id = stream_id /\ pfd[i].frame_type = frame_type}
  IN IF hits = {} THEN Null
     ELSE Ptr(pfd[CHOOSE i \in hits : \A j \in hits : i <= j])

(***************************************************************************)
(* spdy_parse_content_type: the media type, lower-cased and cut at the     *)
(* first ';' or white space, and the parameter string (or NULL).           *)
(***************************************************************************)
spdy_parse_content_type(content_type) ==
  LET n == Len(content_type)
      stops == {i \in 1..n : content_type[i] = 59 \/ isspace(content_type[i])}
      cp == IF stops = {} THEN n + 1 ELSE CHOOSE i \in stops : \A j \in stops : i <= j
      rest == {i \in (cp + 1)..n : ~(content_type[i] = 59 \/ isspace(content_type[i]))}
      start == IF rest = {} THEN n + 1 ELSE CHOOSE i \in rest : \A j \in rest : i <= j
  IN [content_type |-> LowerStr(SubSeq(content_type, 1, cp - 1)),
      params |-> IF start <= n THEN Ptr(SubSeq(content_type, start, n)) ELSE Null]

(***************************************************************************)
(* The name/value loop of dissect_spdy_frame (lines 1765-1840) over the    *)
(* plaintext header_tvb from hdr_offset on.  status is "exc" when a length *)
(* or a string is read outside the plaintext.                              *)
(***************************************************************************)
RECURSIVE ParseHeaders(_, _, _, _)
ParseHeaders(header_tvb, hdr_offset, num_headers, acc) ==
  IF num_headers = 0 \/ tvb_length_remaining(header_tvb, hdr_offset) = 0
    THEN acc
  ELSE IF ~Has(header_tvb, hdr_offset, 4)
    THEN [acc EXCEPT !.status = "exc"]
  ELSE
    LET header_name_length == tvb_get_ntohl(header_tvb, hdr_offset)
        o1 == hdr_offset + 4
    IN IF ~Has(header_tvb, o1, header_name_length) THEN [acc EXCEPT !.status = "exc"]
       ELSE
         LET header_name == CStr(Bytes(header_tvb, o1, header_name_length))
             o2 == o1 + header_name_length
         IN IF ~Has(header_tvb, o2, 4) THEN [acc EXCEPT !.status = "exc"]
            ELSE
              LET header_value_length == tvb_get_ntohl(header_tvb, o2)
                  o3 == o2 + 4
              IN IF ~Has(header_tvb, o3, header_value_length)
                   THEN [acc EXCEPT !.status = "exc"]
                   ELSE
                     LET header_value == CStr(Bytes(header_tvb, o3, header_value_length))
                         verb == g_ascii_strcasecmp_eq(header_name, STR_method)
                                 \/ g_ascii_strcasecmp_eq(header_name, STR_status)
                         other == g_ascii_strcasecmp_eq(header_name, STR_url)
                                  \/ g_ascii_strcasecmp_eq(header_name, STR_version)
                         a1 == [acc EXCEPT !.pairs = acc.pairs + 1]
                         a2 == IF verb \/ other THEN a1
                               ELSE IF g_ascii_strcasecmp_eq(header_name, STR_content_type)
                                 THEN [a1 EXCEPT !.content_type = Ptr(header_value)]
                               ELSE IF g_ascii_strcasecmp_eq(header_name, STR_content_encoding)
                                 THEN [a1 EXCEPT !.content_encoding = Ptr(header_value)]
                               ELSE a1
                     IN ParseHeaders(header_tvb, o3 + header_value_length,
                                     num_headers - 1, a2)

NoHeaders == [status |-> "ok", pairs |-> 0, content_type |-> Null,
              content_encoding |-> Null]

(***************************************************************************)
(* dissect_spdy_frame.  The result carries status ("ok", "exc" when an     *)
(* exception unwinds out of the dissector, "crash" when a NULL pointer is  *)
(* dereferenced), the value returned, the connection state and the packet's*)
(* memo afterwards, and info: what the frame was decoded as and annotated  *)
(* with.                                                                   *)
(***************************************************************************)
NoInfo ==
  [control |-> 0, version |-> 0, frame_type |-> SPDY_INVALID, stream_id |-> 0,
   flags |-> 0, length |-> 0, marks |-> {}, fed |-> "none", memo_hit |-> FALSE,
   block |-> Null, plain |-> Null, rst_status |-> Null, pairs |-> 0, saved |-> FALSE, calls |-> <<>>]

FrameResult(status, ret, cv, pfd, info) ==
  [status |-> status, ret |-> ret, conv |-> cv, pfd |-> pfd, info |-> info]

\* faulty variant: HEADERS on a client-initiated stream go to the request inflater
SelectDecompressor_by_reply(stream_id, frame_type) ==
  IF stream_id % 2 = 0 THEN "rply"
  ELSE IF frame_type = SPDY_SYN_REPLY THEN "rply"
  ELSE "rqst"

\* lines 1682-1698
SelectDecompressor(stream_id, frame_type) ==
  IF stream_id % 2 = 0 THEN "rply"
  ELSE IF frame_type = SPDY_HEADERS THEN "rply"
  ELSE IF frame_type = SPDY_SYN_STREAM THEN "rqst"
  ELSE "rply"

\* lines 1736-1863: from the plaintext to the saved stream record
ProcessHeaders(ctx, cv, pfd, info, header_block, frame_length) ==
  IF ~Has(header_block, 0, 4) THEN FrameResult("exc", 0, cv, pfd, info)
  ELSE
    LET num_headers == tvb_get_ntohl(header_block, 0)
    IN IF UnsignedGreater(num_headers, frame_length)
         THEN FrameResult("ok", frame_length + 8, cv, pfd,
                [info EXCEPT !.marks = @ \cup {"Number of headers is greater than frame length"}])
         ELSE
           LET h == ParseHeaders(header_block, 4, num_headers, NoHeaders)
               i1 == [info EXCEPT !.pairs = h.pairs]
           IN IF h.status = "exc" THEN FrameResult("exc", 0, cv, pfd, i1)
              ELSE IF IsNull(h.content_type) \/ ctx.visited
                THEN FrameResult("ok", 8 + frame_length, cv, pfd, i1)
                ELSE
                  LET ct == spdy_parse_content_type(Deref(h.content_type))
                      sv == spdy_save_stream_info(cv, info.stream_id, ct.content_type,
                                                  ct.params, h.content_encoding)
                  IN IF sv.ok
                       THEN FrameResult("ok", 8 + frame_length, sv.conv, pfd,
                                        [i1 EXCEPT !.saved = TRUE])
                       ELSE FrameResult("exc", 0, cv, pfd,
                              [i1 EXCEPT !.marks = @ \cup {"DISSECTOR_ASSERT"}])

\* faulty variant: the memo entry is stored before the result is looked at
AfterDecompress_memo_first(ctx, cv, pfd, info, d, frame_length) ==
  IF ~d.ok
    THEN FrameResult("ok", -1, cv,
           spdy_save_header_block(pfd, info.stream_id, info.frame_type,
                                  d.out, Len(d.out)),
           [info EXCEPT !.marks = @ \cup {"Inflation failed"}])
    ELSE ProcessHeaders(ctx, cv,
           spdy_save_header_block(pfd, info.stream_id, info.frame_type,
                                  d.out, Len(d.out)),
           [info EXCEPT !.plain = Ptr(d.out)], d.out, frame_length)

\* lines 1707-1725: d is what spdy_decompress_header_block gave for the block
AfterDecompress(ctx, cv, pfd, info, d, frame_length) ==
  IF ~d.ok
    THEN FrameResult("ok", -1, cv, pfd,
           [info EXCEPT !.marks = @ \cup {"Inflation failed"}])
    ELSE ProcessHeaders(ctx, cv,
           spdy_save_header_block(pfd, info.stream_id, info.frame_type,
                                  d.out, Len(d.out)),
           [info EXCEPT !.plain = Ptr(d.out)], d.out, frame_length)

\* faulty variant: both inflaters are left as z
SetDecompressor_both(cv, which, z) == [cv EXCEPT !.rqst = z, !.rply = z]

\* the conversation with the inflater `which` left as z
SetDecompressor(cv, which, z) ==
  IF which = "rqst" THEN [cv EXCEPT !.rqst = z] ELSE [cv EXCEPT !.rply = z]

\* lines 1699-1705: inflate the block in decomp, the inflater `which`
Decompress(ctx, cv, pfd, info, which, block, d, frame_length) ==
  AfterDecompress(ctx, SetDecompressor(cv, which, d.z), pfd,
                  [info EXCEPT !.fed = which, !.block = Ptr(block)],
                  d, frame_length)

\* lines 1727-1748: the plaintext found in the memo
UseSaved(ctx, cv, pfd, info, found, frame_length) ==
  ProcessHeaders(ctx, cv, pfd,
                 [info EXCEPT !.memo_hit = TRUE, !.plain = Ptr(found.header_block)],
                 found.header_block, frame_length)

\* lines 1196-1236 with length == (guint32)-1: tvb_get_ptr takes -1 for "to
\* the end of the buffer" and the inflater is told that 2^32 - 1 bytes follow.
\* block is what the buffer holds from the block's offset on and r2 is what
\* inflating it gives: an error found in those bytes ends the inflation
\* there, anything else makes inflate() read past the end of the buffer.
OverlongBlock(ctx, cv, pfd, info, which, block, r2, frame_length) ==
  IF r2.ret \in {"Z_DATA_ERROR", "Z_NEED_DICT"}
    THEN Decompress(ctx, cv, pfd, info, which, block, HeaderBlockResult(r2), frame_length)
    ELSE FrameResult("crash", 0, cv, pfd, info)

\* lines 1676-1705: no memo, so pick the inflater and decompress
DecompressFresh(tvb, offset, ctx, cv, pfd, info, header_block_length, frame_length, which) ==
  IF header_block_length < -1
     \/ ~Has(tvb, offset, IF header_block_length < 0 THEN 0 ELSE header_block_length)
    \* tvb_get_ptr throws
    THEN FrameResult("exc", 0, cv, pfd, info)
  ELSE IF ~(IF which = "rqst" THEN cv.rqst ELSE cv.rply).alloc
    \* decomp->next_in with decomp == NULL
    THEN FrameResult("crash", 0, cv, pfd, info)
  ELSE IF header_block_length = -1
    THEN OverlongBlock(ctx, cv, pfd, info, which, Bytes(tvb, offset, Len(tvb) - offset),
                       AfterInflate(inflate(IF which = "rqst" THEN cv.rqst ELSE cv.rply,
                                            Bytes(tvb, offset, Len(tvb) - offset)),
                                    cv.dictionary_id),
                       frame_length)
  ELSE Decompress(ctx, cv, pfd, info, which, Bytes(tvb, offset, header_block_length),
                  spdy_decompress_header_block(
                    IF which = "rqst" THEN cv.rqst ELSE cv.rply,
                    cv.dictionary_id, Bytes(tvb, offset, header_block_length)),
                  frame_length)

\* lines 1660-1734: memo lookup, else decompression and memo store
DecompressHeaders(tvb, offset, ctx, cv, pfd, info, header_block_length, frame_length) ==
  IF ~IsNull(spdy_find_saved_header_block(pfd, info.stream_id, info.frame_type))
    THEN UseSaved(ctx, cv, pfd, info,
                  Deref(spdy_find_saved_header_block(pfd, info.stream_id, info.frame_type)),
                  frame_length)
    ELSE DecompressFresh(tvb, offset, ctx, cv, pfd, info, header_block_length,
                         frame_length, SelectDecompressor(info.stream_id, info.frame_type))

\* lines 1523-1569 and 1641-1658: the fixed fields of SYN_STREAM, SYN_REPLY, HEADERS
dissect_header_frame(tvb, orig_offset, ctx, cv, pfd, info0, frame_length) ==
  LET o0 == orig_offset + 8
      syn == info0.frame_type = SPDY_SYN_STREAM
      offset == IF syn THEN o0 + 10 ELSE o0 + 4
      header_block_length == frame_length + 8 - (offset - orig_offset)
  IN IF ~Has(tvb, o0, 4) THEN FrameResult("exc", 0, cv, pfd, info0)
     ELSE
       LET info == [info0 EXCEPT !.stream_id = tvb_get_bits31(tvb, o0)]
       IN IF ctx.tree /\ ~Has(tvb, o0 + 4, 4) THEN FrameResult("exc", 0, cv, pfd, info)
          ELSE IF syn /\ ~(Has(tvb, o0 + 4, 4) /\ Has(tvb, o0 + 8, 1))
            THEN FrameResult("exc", 0, cv, pfd, info)
          ELSE IF ctx.tree /\ (header_block_length < -1
                               \/ (header_block_length = -1 /\ ~Has(tvb, offset, 1))
                               \/ (header_block_length >= 0
                                   /\ ~Has(tvb, offset, header_block_length)))
            \* proto_tree_add_item(hf_spdy_header_block) throws
            THEN FrameResult("exc", 0, cv, pfd, info)
          ELSE IF ~ctx.prefs.decompress_headers
            THEN FrameResult("ok", 8 + frame_length, cv, pfd, info)
          ELSE DecompressHeaders(tvb, offset, ctx, cv, pfd, info,
                                 header_block_length, frame_length)

RST_STREAM_STATUS_MAX == 12

\* lines 1571-1635: the control frames without a header block
dissect_plain_control(tvb, orig_offset, ctx, cv, pfd, info, frame_length) ==
  LET offset == orig_offset + 8
      done == FrameResult("ok", 8 + frame_length, cv, pfd, info)
      exc == FrameResult("exc", 0, cv, pfd, info)
  IN CASE info.frame_type = SPDY_RST_STREAM ->
            IF ~Has(tvb, offset, 4) THEN exc
            ELSE LET rst_status == tvb_get_ntohl(tvb, offset)
                     known == rst_status >= 1 /\ rst_status <= RST_STREAM_STATUS_MAX
                 IN FrameResult("ok", 8 + frame_length, cv, pfd,
                      [info EXCEPT !.stream_id = tvb_get_bits31(tvb, offset),
                                   !.rst_status = Ptr(rst_status),
                                   !.marks = @ \cup (IF known THEN {}
                                       ELSE {"Invalid status code for RST_STREAM"})])
       [] info.frame_type = SPDY_SETTINGS ->
            LET r == dissect_spdy_settings_payload(tvb, offset, ctx, frame_length)
                i1 == [info EXCEPT !.marks = @ \cup r.marks]
            IN IF r.status = "exc" THEN FrameResult("exc", 0, cv, pfd, i1)
               ELSE IF r.ret < 0 THEN FrameResult("ok", -1, cv, pfd, i1)
               ELSE FrameResult("ok", 8 + frame_length, cv, pfd, i1)
       [] info.frame_type = SPDY_PING ->
            IF ~Has(tvb, offset, 4) THEN exc ELSE done
       [] info.frame_type = SPDY_WINDOW_UPDATE ->
            IF ~Has(tvb, offset, 8) THEN exc
            ELSE FrameResult("ok", 8 + frame_length, cv, pfd,
                   [info EXCEPT !.stream_id = tvb_get_bits31(tvb, offset)])
       [] info.frame_type = SPDY_DATA ->
            \* a control frame of type 0 reaches the switch's default
            FrameResult("ok", -1, cv, pfd,
              [info EXCEPT !.marks = @ \cup {"Unhandled SPDY frame type"}])
       [] OTHER -> done

dissect_spdy_frame(tvb, offset, ctx, cv, pfd) ==
  IF tvb_length_remaining(tvb, offset) < 8
    THEN FrameResult("ok", -1, cv, pfd,
           [NoInfo EXCEPT !.marks = {"Reported length remaining too small"}])
  ELSE
    LET control_bit == tvb_get_bit0(tvb, offset)
        version == IF control_bit = 1 THEN tvb_get_bits15(tvb, offset) ELSE 0
        frame_type == IF control_bit = 1 THEN tvb_get_ntohs(tvb, offset + 2) ELSE SPDY_DATA
        stream_id == IF control_bit = 1 THEN 0 ELSE tvb_get_bits31(tvb, offset)
        flags == tvb_get_guint8(tvb, offset + 4)
        frame_length == tvb_get_ntoh24(tvb, offset + 5)
        info == [NoInfo EXCEPT !.control = control_bit, !.version = version,
                               !.frame_type = frame_type, !.stream_id = stream_id,
                               !.flags = flags, !.length = frame_length]
    IN IF control_bit = 1 /\ frame_type >= SPDY_INVALID
         THEN FrameResult("ok", -1, cv, pfd,
                [NoInfo EXCEPT !.control = 1, !.version = version,
                               !.frame_type = frame_type,
                               !.marks = {"Invalid SPDY control frame type"}])
       ELSE IF tvb_length_remaining(tvb, offset + 8) < frame_length
         THEN FrameResult("ok", -1, cv, pfd,
                [info EXCEPT !.marks = {"Not enough frame data"}])
       ELSE IF control_bit = 0
         THEN LET d == dissect_spdy_data_payload(tvb, offset + 8, ctx, cv, stream_id,
                                                 flags, frame_length)
              IN FrameResult(d.status, (offset + 8) + frame_length, d.conv, pfd,
                             [info EXCEPT !.marks = d.marks, !.calls = d.calls])
       ELSE IF version < MIN_SPDY_VERSION
         THEN FrameResult("ok", frame_length + 8, cv, pfd,
                [info EXCEPT !.marks = IF ctx.tree THEN {"Unsupported Version"} ELSE {}])
       ELSE IF frame_type \in {SPDY_SYN_STREAM, SPDY_SYN_REPLY, SPDY_HEADERS}
         THEN dissect_header_frame(tvb, offset, ctx, cv, pfd, info, frame_length)
       ELSE dissect_plain_control(tvb, offset, ctx, cv, pfd, info, frame_length)

(***************************************************************************)
(* dissect_spdy: the driver loop from `offset` on.  desegment is NULL      *)
(* when the call recorded no need-more request, else the pair it stored in *)
(* pinfo->desegment_offset and pinfo->desegment_len.  frames logs, for     *)
(* every frame handed to dissect_spdy_frame, where it started, what the    *)
(* driver expected, what came back, and the state before and after.        *)
(***************************************************************************)
get_spdy_message_len(tvb, offset) == tvb_get_ntoh24(tvb, offset + 5) + 8

DriverResult(status, ret, desegment, cv, pfd, frames) ==
  [status |-> status, ret |-> ret, desegment |-> desegment, conv |-> cv,
   pfd |-> pfd, frames |-> frames]

\* faulty variant: the request is recorded at the start of the buffer
Desegment_at_start(offset, len) == Ptr([offset |-> 0, len |-> len])

Desegment(offset, len) == Ptr([offset |-> offset, len |-> len])

\* the log entry of a frame handed to dissect_spdy_frame with result r
FrameEntry(offset, expected_frame_len, cv, pfd, r) ==
  [off |-> offset, expected |-> expected_frame_len,
   status |-> r.status, ret |-> r.ret, info |-> r.info,
   pre |-> [conv |-> cv, pfd |-> pfd],
   post |-> [conv |-> r.conv, pfd |-> r.pfd]]

RECURSIVE DriverLoop(_, _, _, _, _, _)

\* faulty variant: after a frame error the loop goes on one byte further
DriverStep_resync(tvb, offset, ctx, frames, expected_frame_len, r) ==
  IF r.status # "ok"
    THEN DriverResult(r.status, 0, Null, r.conv, r.pfd, frames)
  ELSE IF r.ret # expected_frame_len
    THEN DriverLoop(tvb, offset + 1, ctx, r.conv, r.pfd, frames)
  ELSE DriverLoop(tvb, offset + r.ret, ctx, r.conv, r.pfd, frames)

\* lines 1900-1908: r is what dissect_spdy_frame gave for the frame at offset
DriverStep(tvb, offset, ctx, frames, expected_frame_len, r) ==
  IF r.status # "ok"
    THEN DriverResult(r.status, 0, Null, r.conv, r.pfd, frames)
  ELSE IF r.ret # expected_frame_len
    \* "Error decoding SPDY frame!"
    THEN DriverResult("ok", offset, Null, r.conv, r.pfd, frames)
  ELSE DriverLoop(tvb, offset + r.ret, ctx, r.conv, r.pfd, frames)

\* lines 1899-1900: dissect the frame at offset with the conversation data cv
DriverFrame(tvb, offset, ctx, cv, pfd, frames, expected_frame_len, r) ==
  DriverStep(tvb, offset, ctx,
             Append(frames, FrameEntry(offset, expected_frame_len, cv, pfd, r)),
             expected_frame_len, r)

DriverLoop(tvb, offset, ctx, cv, pfd, frames) ==
  LET remaining_len == tvb_length_remaining(tvb, offset)
  IN IF ~(remaining_len > 0)
       THEN DriverResult("ok", offset, Null, cv, pfd, frames)
     ELSE IF remaining_len < 8
       THEN DriverResult("ok", offset, Desegment(offset, DESEGMENT_ONE_MORE_SEGMENT),
                         cv, pfd, frames)
     ELSE IF get_spdy_message_len(tvb, offset) > remaining_len
       THEN DriverResult("ok", offset,
                         Desegment(offset, get_spdy_message_len(tvb, offset) - remaining_len),
                         cv, pfd, frames)
     ELSE DriverFrame(tvb, offset, ctx,
                      get_or_create_spdy_conversation_data(cv, ctx.prefs), pfd, frames,
                      get_spdy_message_len(tvb, offset),
                      dissect_spdy_frame(tvb, offset, ctx,
                                         get_or_create_spdy_conversation_data(cv, ctx.prefs),
                                         pfd))

dissect_spdy(tvb, ctx, cv, pfd) == DriverLoop(tvb, 0, ctx, cv, pfd, <<>>)

(***************************************************************************)
(* dissect_spdy_heur: the heuristic entry.  old is the pair the host holds *)
(* in pinfo->desegment_offset and pinfo->desegment_len before the call;    *)
(* desegment is the pair it holds afterwards.                              *)
(***************************************************************************)
\* faulty variant: every first byte is taken for the start of a SPDY frame
LooksLikeSpdy_any(first_byte) == TRUE

\* lines 1941-1944
LooksLikeSpdy(first_byte) == first_byte = 128 \/ first_byte = 0

HeurResult(status, claimed, desegment, cv, pfd, frames, ret) ==
  [status |-> status, claimed |-> claimed, desegment |-> desegment, conv |-> cv,
   pfd |-> pfd, frames |-> frames, ret |-> ret]

\* lines 1946-1954: r is what dissect_spdy gave.  An exception leaves the
\* function before anything is returned or restored; dissect_spdy writes
\* the desegment pair only on its way out, so the pair is then still old.
AfterAttempt(old, r) ==
  IF r.status # "ok"
    THEN HeurResult(r.status, FALSE, old, r.conv, r.pfd, r.frames, 0)
  ELSE IF r.ret # 0
    THEN HeurResult("ok", TRUE, IF IsNull(r.desegment) THEN old ELSE Deref(r.desegment),
                    r.conv, r.pfd, r.frames, r.ret)
  ELSE HeurResult("ok", FALSE, old, r.conv, r.pfd, r.frames, 0)

dissect_spdy_heur(tvb, ctx, cv, pfd, old) ==
  IF ~Has(tvb, 0, 1)
    \* tvb_get_guint8 throws
    THEN HeurResult("exc", FALSE, old, cv, pfd, <<>>, 0)
  ELSE IF ~LooksLikeSpdy(tvb_get_guint8(tvb, 0))
    THEN HeurResult("ok", FALSE, old, cv, pfd, <<>>, 0)
  ELSE AfterAttempt(old, dissect_spdy(tvb, ctx, cv, pfd))

(***************************************************************************)
(* Frames on the wire.                                                     *)
(***************************************************************************)
U24(n) == <<n \div 65536, (n \div 256) % 256, n % 256>>

ControlFrame(version, type, flags, payload) ==
  <<128 + version \div 256, version % 256, type \div 256, type % 256, flags>>
    \o U24(Len(payload)) \o payload

DataFrame(stream_id, flags, payload) ==
  U32(stream_id) \o <<flags>> \o U24(Len(payload)) \o payload

\* the zlib header a SPDY compressor emits: CMF 0x78, FLG 0xbb (FDICT), DICTID
ZlibHeader(dictid) == <<120, 187>> \o U32(dictid)
\* a sync-flushed segment ends with the empty stored block 00 00 ff ff
FirstBlock(p) == ZlibHeader(SpdyDictionaryAdler) \o <<0, p, 0, 0, 255, 255>>
NextBlock(k, p) == <<k, p, 0, 0, 255, 255>>

SynStream(stream_id, block) ==
  ControlFrame(3, SPDY_SYN_STREAM, 0, U32(stream_id) \o U32(0) \o <<0, 0>> \o block)
SynReply(stream_id, block) ==
  ControlFrame(3, SPDY_SYN_REPLY, 0, U32(stream_id) \o block)
Headers(stream_id, block) ==
  ControlFrame(3, SPDY_HEADERS, 0, U32(stream_id) \o block)

(***************************************************************************)
(* The buffers the host hands to the dissector.  The driver family holds   *)
(* every sequence of up to MaxFrames frames of DriverFrames, followed by   *)
(* nothing, by a fragment shorter than a frame header or by a frame whose  *)
(* payload is cut short.  The stream family holds the packets of a         *)
(* conversation with header frames in both directions and DATA frames.     *)
(***************************************************************************)
F_NOOP == ControlFrame(3, SPDY_NOOP, 0, <<>>)
F_PING == ControlFrame(3, SPDY_PING, 0, U32(1))
F_RST == ControlFrame(3, SPDY_RST_STREAM, 0, U32(1) \o U32(99))
F_SETTINGS == ControlFrame(3, SPDY_SETTINGS, 0, U32(1) \o <<0, 0, 0, 4>> \o U32(100))
F_SETTINGS_SHORT == ControlFrame(3, SPDY_SETTINGS, 0, U32(5) \o U32(0) \o U32(0))
\* one entry announced, half of it inside the declared payload
F_SETTINGS_TIGHT == ControlFrame(3, SPDY_SETTINGS, 0, U32(1) \o <<0, 0, 0, 4>>)
F_BADTYPE == ControlFrame(3, SPDY_INVALID, 0, <<>>)
F_V2_REPLY == ControlFrame(2, SPDY_SYN_REPLY, 0, U32(1) \o FirstBlock(2))
F_DATA == DataFrame(1, 0, <<31, 7>>)
F_DATA_FIN == DataFrame(1, SPDY_FLAG_FIN, <<9>>)
F_REPLY == SynReply(1, FirstBlock(2))
F_HEADERS_BAD == Headers(1, <<9, 9, 9, 9>>)
F_SYN_1 == SynStream(1, FirstBlock(3))
F_SYN_2 == SynStream(2, FirstBlock(3))
F_REPLY_2 == SynReply(2, FirstBlock(1))
F_HEADERS_1 == Headers(1, NextBlock(1, 3))
F_HEADERS_2 == Headers(2, NextBlock(1, 1))
\* a reply whose content-encoding header has the empty value
F_REPLY_NOENC == SynReply(1, FirstBlock(8))
\* a reply compressed with a preset dictionary other than the SPDY one
F_REPLY_OTHERDICT == SynReply(1, ZlibHeader(1) \o <<0, 2, 0, 0, 255, 255>>)
\* replies whose plaintext declares 255 pairs and has none, declares two
\* pairs and has one, declares one pair and ends inside its name
F_REPLY_MANY == SynReply(1, FirstBlock(4))
F_REPLY_SHORT == SynReply(1, FirstBlock(5))
F_REPLY_CUT == SynReply(1, FirstBlock(6))

DriverFrames ==
  {F_NOOP, F_PING, F_RST, F_SETTINGS, F_SETTINGS_SHORT, F_SETTINGS_TIGHT, F_BADTYPE,
   F_V2_REPLY,
   F_DATA, F_DATA_FIN, F_REPLY, F_HEADERS_BAD, F_SYN_1, F_SYN_2, F_REPLY_2,
   F_HEADERS_1, F_HEADERS_2,
   F_REPLY_NOENC, F_REPLY_OTHERDICT, F_REPLY_MANY, F_REPLY_SHORT, F_REPLY_CUT}

DriverTails == {<<>>, <<0, 0, 0>>, SubSeq(F_PING, 1, 10)}

RECURSIVE FrameSeqs(_, _)
FrameSeqs(frames, n) ==
  IF n = 0 THEN {<<>>}
  ELSE LET shorter == FrameSeqs(frames, n - 1)
       IN shorter \cup {b \o f : b \in shorter, f \in frames}

DriverBuffers ==
  {b \o t : b \in FrameSeqs(DriverFrames, MaxFrames), t \in DriverTails} \ {<<>>}

F_HEADERS_1b == Headers(1, NextBlock(2, 0))

StreamFrames == {F_SYN_1, F_REPLY, F_HEADERS_1, F_HEADERS_1b, F_DATA, F_DATA_FIN}

StreamBuffers == FrameSeqs(StreamFrames, MaxFrames) \ {<<>>}

\* a DATA frame on a stream-id of 2^24 or more: its first byte is not 0
F_DATA_HIGH == DataFrame(16777217, SPDY_FLAG_FIN, <<5>>)

\* the buffers of a flow offered to the heuristic entry, some of them not
\* SPDY, and the desegment pairs the host may hold before the call
\* a SYN_REPLY of length 3: one byte short of its stream-id
F_REPLY_TINY == ControlFrame(3, SPDY_SYN_REPLY, 0, <<0, 0, 0>>)

HeurFrames ==
  {F_NOOP, F_PING, F_BADTYPE, F_SETTINGS_SHORT, F_DATA, F_DATA_HIGH, F_REPLY, F_REPLY_TINY}

HeurBuffers ==
  ({b \o t : b \in FrameSeqs(HeurFrames, MaxFrames), t \in DriverTails} \ {<<>>})
    \cup {<<71, 69, 84, 32>>, <<22, 3, 1>>, F_REPLY_TINY \o <<0>>}

OldDesegments == {[offset |-> 0, len |-> 0], [offset |-> 5, len |-> 7]}

\* the host's dissector tables: a handle registered for the port, one for
\* the media type, and whether the handle called accepts the body
HostTables ==
  {[port_handle |-> FALSE, media_type_handle |-> TRUE, sub_dissected |-> TRUE]}

(***************************************************************************)
(* State machine.                                                          *)
(***************************************************************************)
DefaultPrefs ==
  [assemble_entity_bodies |-> TRUE, decompress_headers |-> TRUE,
   decompress_body |-> TRUE, changes |-> 0]

Context(visited, num, tree, host) ==
  [visited |-> visited, num |-> num, tree |-> tree, prefs |-> prefs, host |-> host]

CallRecord(kind, pkt, tvb, ctx, pfd, r) ==
  [kind |-> kind, pkt |-> pkt, tvb |-> tvb, ctx |-> ctx,
   status |-> r.status, ret |-> r.ret, desegment |-> r.desegment,
   frames |-> r.frames, pre |-> [conv |-> conv, pfd |-> pfd]]

Init ==
  /\ prefs = DefaultPrefs
  /\ conv = NoConv
  /\ capture = <<>>
  /\ call = [kind |-> "none", pkt |-> 0, tvb |-> <<>>,
             ctx |-> [visited |-> FALSE, num |-> 0, tree |-> FALSE,
                      prefs |-> DefaultPrefs,
                      host |-> CHOOSE h \in HostTables : TRUE],
             status |-> "ok", ret |-> 0, desegment |-> Null, frames |-> <<>>,
             pre |-> [conv |-> NoConv, pfd |-> <<>>]]

\* the first pass hands packet number Len(capture) + 1 to dissect_spdy
FirstVisit(tvb, tree, host) ==
  LET num == Len(capture) + 1
      ctx == Context(FALSE, num, tree, host)
  IN /\ call.status # "crash"
     /\ \E r \in {dissect_spdy(tvb, ctx, conv, <<>>)} :
          /\ conv' = r.conv
          /\ capture' = Append(capture,
                                [tvb |-> tvb, pfd |-> r.pfd,
                                 first |-> [prefs |-> prefs, frames |-> r.frames]])
          /\ call' = CallRecord("first", num, tvb, ctx, <<>>, r)
     /\ UNCHANGED prefs

\* the host dissects packet i again, with pinfo->fd->flags.visited set
Revisit(i, tree, host) ==
  LET ctx == Context(TRUE, i, tree, host)
  IN /\ call.status # "crash"
     /\ \E r \in {dissect_spdy(capture[i].tvb, ctx, conv, capture[i].pfd)} :
          /\ conv' = r.conv
          /\ capture' = [capture EXCEPT ![i].pfd = r.pfd]
          /\ call' = CallRecord("revisit", i, capture[i].tvb, ctx, capture[i].pfd, r)
     /\ UNCHANGED prefs

TogglePref(name) ==
  /\ call.status # "crash"
  /\ prefs.changes < MaxPrefChanges
  /\ prefs' = [prefs EXCEPT ![name] = ~@, !.changes = @ + 1]
  /\ UNCHANGED <<conv, capture, call>>

\* the sequential first pass over a capture, which builds no tree
DissectPacket ==
  \E tvb \in StreamBuffers, host \in HostTables :
    Len(capture) < MaxPackets /\ FirstVisit(tvb, FALSE, host)

DissectBuffer ==
  \E tvb \in DriverBuffers, tree \in BOOLEAN, host \in HostTables :
    capture = <<>> /\ FirstVisit(tvb, tree, host)

Redissect ==
  \E i \in 1..Len(capture), tree \in BOOLEAN, host \in HostTables :
    Revisit(i, tree, host)

SetPreference ==
  \E name \in {"assemble_entity_bodies", "decompress_headers", "decompress_body"} :
    TogglePref(name)

\* the host offers the first packet of a flow to dissect_spdy_heur
HeurVisit(tvb, tree, host, old) ==
  LET ctx == Context(FALSE, 1, tree, host)
  IN /\ capture = <<>>
     /\ \E h \in {dissect_spdy_heur(tvb, ctx, conv, <<>>, old)} :
          /\ conv' = h.conv
          /\ capture' = <<[tvb |-> tvb, pfd |-> h.pfd,
                           first |-> [prefs |-> prefs, frames |-> h.frames]]>>
          /\ call' = [kind |-> "heur", pkt |-> 1, tvb |-> tvb, ctx |-> ctx,
                      status |-> h.status, ret |-> h.ret, desegment |-> h.desegment,
                      frames |-> h.frames, pre |-> [conv |-> conv, pfd |-> <<>>],
                      claimed |-> h.claimed, old |-> old]
     /\ UNCHANGED prefs

DissectHeuristic ==
  \E tvb \in HeurBuffers, tree \in BOOLEAN, host \in HostTables, old \in OldDesegments :
    HeurVisit(tvb, tree, host, old)

Next == DissectPacket \/ Redissect \/ SetPreference

Spec == Init /\ [][Next]_vars

\* one buffer of the driver family, dissected and dissected again
NextDriver == DissectBuffer \/ Redissect \/ SetPreference

SpecDriver == Init /\ [][NextDriver]_vars

\* the host runs the routines registered for the end of the sequential
\* pass; reset_decompressors is registered when the connection state is
\* created (line 529)
PostSeqCleanup ==
  /\ conv.exists
  /\ call.status # "crash"
  /\ conv' = reset_decompressors(conv)
  /\ call' = [kind |-> "cleanup", pkt |-> 0, tvb |-> <<>>, ctx |-> call.ctx,
              status |-> "ok", ret |-> 0, desegment |-> Null, frames |-> <<>>,
              pre |-> [conv |-> conv, pfd |-> <<>>]]
  /\ UNCHANGED <<prefs, capture>>

\* the first packet of a flow on the registered port
DissectFirst ==
  \E tvb \in HeurBuffers, tree \in BOOLEAN, host \in HostTables :
    capture = <<>> /\ FirstVisit(tvb, tree, host)

NextCleanup == DissectFirst \/ PostSeqCleanup \/ SetPreference

SpecCleanup == Init /\ [][NextCleanup]_vars

\* packets with header frames, first visited and dissected again while the
\* decompress-headers setting is switched up to MaxHeaderToggles times
MaxHeaderToggles == 2

HeaderFrames == {F_NOOP, F_REPLY, F_SYN_1, F_HEADERS_1, F_HEADERS_BAD}

HeaderBuffers == FrameSeqs(HeaderFrames, MaxFrames) \ {<<>>}

DissectHeaderPacket ==
  \E tvb \in HeaderBuffers, host \in HostTables :
    Len(capture) < MaxPackets /\ FirstVisit(tvb, FALSE, host)

SetDecompressHeaders ==
  /\ call.status # "crash"
  /\ prefs.changes < MaxHeaderToggles
  /\ prefs' = [prefs EXCEPT !.decompress_headers = ~@, !.changes = @ + 1]
  /\ UNCHANGED <<conv, capture, call>>

NextRevisit == DissectHeaderPacket \/ Redissect \/ SetDecompressHeaders

SpecRevisit == Init /\ [][NextRevisit]_vars

\* streams closed by a DATA frame of length 0: a reply with and one without
\* a content-encoding, a DATA frame, and the empty DATA frame with FIN
F_REPLY_TEXT == SynReply(1, FirstBlock(1))
F_DATA_END == DataFrame(1, SPDY_FLAG_FIN, <<>>)

ClosingFrames == {F_REPLY, F_REPLY_TEXT, F_DATA, F_DATA_END}

ClosingBuffers == FrameSeqs(ClosingFrames, MaxFrames) \ {<<>>}

DissectClosingPacket ==
  \E tvb \in ClosingBuffers, host \in HostTables :
    Len(capture) < MaxPackets /\ FirstVisit(tvb, FALSE, host)

NextClose == DissectClosingPacket \/ SetPreference

SpecClose == Init /\ [][NextClose]_vars

\* one buffer with frames of every type the switch of dissect_spdy_frame
\* names, dissected and dissected again
F_GOAWAY == ControlFrame(3, SPDY_GOAWAY, 0, U32(1) \o U32(0))
F_WINDOW_UPDATE == ControlFrame(3, SPDY_WINDOW_UPDATE, 0, U32(1) \o U32(256))
F_CREDENTIAL == ControlFrame(3, SPDY_CREDENTIAL, 0, <<0, 1>>)

TypeFrames ==
  {F_DATA, F_DATA_FIN, F_SYN_1, F_SYN_2, F_REPLY, F_RST, F_SETTINGS, F_NOOP, F_PING,
   F_GOAWAY, F_HEADERS_1, F_HEADERS_BAD, F_WINDOW_UPDATE, F_CREDENTIAL}

DissectTypes ==
  \E tvb \in FrameSeqs(TypeFrames, MaxFrames) \ {<<>>}, tree \in BOOLEAN,
     host \in HostTables :
    capture = <<>> /\ FirstVisit(tvb, tree, host)

NextTypes == DissectTypes \/ Redissect \/ SetPreference

SpecTypes == Init /\ [][NextTypes]_vars

\* dissect_spdy_settings_payload applied to SETTINGS frames whose payload is
\* a num_entries word with bytes from WordBytes and up to MaxSettingsPad
\* bytes of zeros behind it
MaxSettingsPad == 16

WordBytes == {0, 1, 2, 32, 255}

Zeros(n) == [i \in 1..n |-> 0]

SettingsFrames ==
  {ControlFrame(3, SPDY_SETTINGS, 0, w \o Zeros(4 * j)) :
     w \in [1..4 -> WordBytes], j \in 0..(MaxSettingsPad \div 4)}

InitSettings ==
  /\ prefs = DefaultPrefs
  /\ conv = NoConv
  /\ capture = <<>>
  /\ \E tvb \in SettingsFrames, tree \in BOOLEAN :
       call = [kind |-> "frame", tvb |-> tvb, tree |-> tree]

SettingsPayload ==
  /\ call.kind = "frame"
  /\ \E host \in HostTables :
       call' = [kind |-> "settings", tvb |-> call.tvb, tree |-> call.tree,
                length |-> Len(call.tvb) - 8,
                out |-> dissect_spdy_settings_payload(
                          call.tvb, 8, Context(FALSE, 1, call.tree, host),
                          Len(call.tvb) - 8)]
  /\ UNCHANGED <<prefs, conv, capture>>

NextSettings == SettingsPayload

SpecSettings == InitSettings /\ [][NextSettings]_vars

\* spdy_parse_content_type applied to the content-type strings of up to
\* MaxTypeLen characters over 'T', 'x', ';', blank and tab
MaxTypeLen == 4

TypeChars == {84, 120, 59, 32, 9}

ContentTypes == UNION {[1..n -> TypeChars] : n \in 0..MaxTypeLen}

InitParse ==
  /\ prefs = DefaultPrefs
  /\ conv = NoConv
  /\ capture = <<>>
  /\ \E s \in ContentTypes : call = [kind |-> "string", input |-> s]

ParseContentType ==
  /\ call.kind = "string"
  /\ call' = [kind |-> "parsed", input |-> call.input,
              out |-> spdy_parse_content_type(call.input)]
  /\ UNCHANGED <<prefs, conv, capture>>

NextParse == ParseContentType

SpecParse == InitParse /\ [][NextParse]_vars

\* the first packet of a flow, offered to the heuristic entry
NextHeur == DissectHeuristic \/ SetPreference

SpecHeur == Init /\ [][NextHeur]_vars

(***************************************************************************)
(* Properties.  Each is a predicate on the record of the last dissect_spdy *)
(* call: `call` changes together with conv and capture, so a predicate on  *)
(* it that holds in every reachable state holds of every call.            *)
(***************************************************************************)
Returned == call.kind # "none" /\ call.status = "ok"

\* dissect_spdy_frame ran to its end on f without reporting an error
FullyDissected(f) == f.status = "ok" /\ f.ret # -1
\* dissect_spdy_frame reported an error for f
ReportsError(f) == f.status = "ok" /\ f.ret = -1
\* the driver took f and advanced past it
Accepted(f) == f.status = "ok" /\ f.ret = f.expected

AllAccepted == \A i \in 1..Len(call.frames) : Accepted(call.frames[i])

\* the offset behind the last frame handed to dissect_spdy_frame
Boundary ==
  IF call.frames = <<>> THEN 0
  ELSE call.frames[Len(call.frames)].off + call.frames[Len(call.frames)].expected

\* connection state and memo behind the last frame, and after the call
StateAtBoundary ==
  IF call.frames = <<>> THEN call.pre ELSE call.frames[Len(call.frames)].post
StateAfterCall == [conv |-> conv, pfd |-> capture[call.pkt].pfd]

\* the frame size declared at offset o: 24-bit big-endian length at o + 5, plus 8
DeclaredTotal(tvb, o) == tvb[o + 6] * 65536 + tvb[o + 7] * 256 + tvb[o + 8] + 8

RECURSIVE SumSizes(_)
SumSizes(fs) ==
  IF fs = <<>> THEN 0 ELSE (Head(fs).info.length + 8) + SumSizes(Tail(fs))

\* C1: the value dissect_spdy returns lies between 0 and the buffer length
\* and equals the sum of (length + 8) over the frames fully dissected in the
\* call.  Refuted: a DATA frame behind another frame is dissected to its end
\* and its bytes are not counted.
C1_ReturnIsSumOfDissectedFrames ==
  Returned =>
    /\ call.ret >= 0
    /\ call.ret <= Len(call.tvb)
    /\ call.ret = SumSizes(SelectSeq(call.frames, FullyDissected))

\* C2: whenever dissect_spdy returns less than the buffer length it has
\* recorded a need-more request in that call.  Refuted: the return after a
\* frame whose result differs from the expected length records none.
C2_ShortReturnRecordsNeedMore ==
  (Returned /\ call.ret < Len(call.tvb)) => ~IsNull(call.desegment)

\* frames that are complete and well formed whatever the connection state
WellFormedFrames == {F_NOOP, F_PING, F_RST, F_SETTINGS, F_DATA, F_DATA_FIN}

RECURSIVE FrameStarts(_, _)
FrameStarts(tvb, o) ==
  IF o + 8 > Len(tvb) THEN <<>> ELSE <<o>> \o FrameStarts(tvb, o + DeclaredTotal(tvb, o))

\* C3: a buffer of k complete well-formed version 3 frames, DATA frames at
\* any position, is dissected frame by frame in buffer order and its whole
\* length is returned.  Refuted by a DATA frame that is not the first frame.
C3_AllWellFormedFramesDissected ==
  (call.kind = "first" /\ call.tvb \in FrameSeqs(WellFormedFrames, MaxFrames)) =>
    /\ call.status = "ok"
    /\ call.ret = Len(call.tvb)
    /\ Len(call.frames) = Len(FrameStarts(call.tvb, 0))
    /\ \A i \in 1..Len(call.frames) :
         call.frames[i].off = FrameStarts(call.tvb, 0)[i] /\ Accepted(call.frames[i])

\* C4: when a frame reports an error the driver advances past that frame
\* and dissects the complete frame that follows it.  Refuted: the driver
\* returns the offset of the frame in error.
C4_ErrorHaltsOnlyThatFrame ==
  Returned =>
    \A i \in 1..Len(call.frames) :
      LET f == call.frames[i]
          next == f.off + f.expected
      IN ReportsError(f) =>
           /\ call.ret >= next
           /\ (next + 8 <= Len(call.tvb)
               /\ next + DeclaredTotal(call.tvb, next) <= Len(call.tvb))
                => (Len(call.frames) > i /\ call.frames[i + 1].off = next)

\* C5: with 1 to 7 bytes left at the frame boundary the loop has reached,
\* dissect_spdy records desegment_offset = the boundary and desegment_len =
\* DESEGMENT_ONE_MORE_SEGMENT and returns the boundary; a buffer shorter than
\* 8 bytes gives 0 with desegment_offset 0.
C5_ShortRemainderAsksOneMoreSegment ==
  /\ (Returned /\ AllAccepted
      /\ Len(call.tvb) - Boundary >= 1 /\ Len(call.tvb) - Boundary <= 7)
       => /\ call.desegment = Ptr([offset |-> Boundary, len |-> 268435455])
          /\ call.ret = Boundary
  /\ (call.kind # "none" /\ Len(call.tvb) >= 1 /\ Len(call.tvb) < 8)
       => /\ call.status = "ok"
          /\ call.ret = 0
          /\ ~IsNull(call.desegment)
          /\ Deref(call.desegment).offset = 0

\* C5 happens: three bytes are left behind a frame the driver accepted
C5_Witness ==
  /\ Returned /\ AllAccepted /\ call.frames # <<>>
  /\ Len(call.tvb) - Boundary = 3
  /\ call.ret = Boundary /\ Boundary > 0
  /\ Deref(call.desegment).len = DESEGMENT_ONE_MORE_SEGMENT

\* C6: with 8 bytes or more left at the boundary the loop has reached and a
\* declared total larger than what is left, dissect_spdy records
\* desegment_offset = the frame's start and desegment_len = total - remaining,
\* returns the frame's start, and leaves inflaters, stream records, chunk
\* lists and memo as they were at the boundary.
C6_IncompleteFrameAsksRestOfIt ==
  (Returned /\ AllAccepted
   /\ Len(call.tvb) - Boundary >= 8
   /\ DeclaredTotal(call.tvb, Boundary) > Len(call.tvb) - Boundary)
    => /\ call.desegment =
            Ptr([offset |-> Boundary,
                 len |-> DeclaredTotal(call.tvb, Boundary) - (Len(call.tvb) - Boundary)])
       /\ call.ret = Boundary
       /\ StateAfterCall = StateAtBoundary

\* C6 happens: a PING cut two bytes short behind a header frame that moved
\* an inflater
C6_Witness ==
  /\ Returned /\ AllAccepted /\ call.frames # <<>>
  /\ Len(call.tvb) - Boundary = 10
  /\ DeclaredTotal(call.tvb, Boundary) = 12
  /\ Deref(call.desegment).len = 2
  /\ call.ret = Boundary
  /\ conv.rply.pos = 1

IsHeaderFrame(f) ==
  /\ f.info.control = 1
  /\ f.info.version >= 3
  /\ f.info.frame_type \in {SPDY_SYN_STREAM, SPDY_SYN_REPLY, SPDY_HEADERS}

\* the compressed block of header frame f: what follows the fixed fields
HeaderBlockOf(tvb, f) ==
  LET fixed == IF f.info.frame_type = SPDY_SYN_STREAM THEN 18 ELSE 12
  IN SubSeq(tvb, f.off + fixed + 1, f.off + f.expected)

\* the inflater of f's direction, as the protocol assigns it
DirectionOf(f) ==
  IF f.info.stream_id % 2 = 1 /\ f.info.frame_type = SPDY_SYN_STREAM
    THEN "rqst" ELSE "rply"

\* what inflating f's own block in its direction's inflater gives
OwnInflation(tvb, f) ==
  LET d == spdy_decompress_header_block(
             IF DirectionOf(f) = "rqst" THEN f.pre.conv.rqst ELSE f.pre.conv.rply,
             f.pre.conv.dictionary_id, HeaderBlockOf(tvb, f))
  IN IF d.ok THEN Ptr(d.out) ELSE Null

\* C7: on the first visit of a packet, with header decompression enabled,
\* every version 3 SYN_STREAM, SYN_REPLY and HEADERS frame dissected has its
\* block fed to its direction's inflater and its plaintext is the inflation
\* of its own block.  Refuted: the second header frame of a packet with the
\* stream-id and type of an earlier one is not fed at all and is given the
\* earlier frame's plaintext.
C7_EachHeaderBlockInflatedOnce ==
  (call.kind = "first" /\ call.ctx.prefs.decompress_headers) =>
    \A i \in 1..Len(call.frames) :
      LET f == call.frames[i]
      IN (IsHeaderFrame(f) /\ f.status = "ok") =>
           /\ f.info.fed = DirectionOf(f)
           /\ f.info.plain = OwnInflation(call.tvb, f)

\* the frame log of the first visit of the packet of the last call
FirstVisitOfCall == capture[call.pkt].first

\* C8 as stated: a redissection yields for every header frame the plaintext
\* of the first visit.  Refuted: with header decompression switched off in
\* between, the redissection yields no plaintext.
C8_RevisitYieldsFirstVisitPlaintext ==
  call.kind = "revisit" =>
    \A i \in 1..Len(call.frames) :
      IsHeaderFrame(call.frames[i]) =>
        /\ i <= Len(FirstVisitOfCall.frames)
        /\ call.frames[i].info.plain = FirstVisitOfCall.frames[i].info.plain

\* C8, amended: with header decompression enabled on the first visit and on
\* the redissection, every header frame dissected on both visits has on the
\* redissection the plaintext of the first visit, wherever the inflaters
\* stand by then.
C8_RevisitYieldsFirstVisitPlaintextIfEnabled ==
  (call.kind = "revisit" /\ call.ctx.prefs.decompress_headers
   /\ FirstVisitOfCall.prefs.decompress_headers) =>
    \A i \in 1..Len(call.frames) :
      (IsHeaderFrame(call.frames[i]) /\ i <= Len(FirstVisitOfCall.frames)) =>
        call.frames[i].info.plain = FirstVisitOfCall.frames[i].info.plain

\* C8 happens: packet 1 is dissected again after packet 2 moved the reply
\* inflater on, and its header frame has the plaintext of the first visit
C8_Witness ==
  /\ call.kind = "revisit" /\ call.pkt = 1 /\ Len(capture) = 2
  /\ call.ctx.prefs.decompress_headers
  /\ FirstVisitOfCall.prefs.decompress_headers
  /\ call.frames # <<>>
  /\ IsHeaderFrame(call.frames[1])
  /\ call.frames[1].info.memo_hit
  /\ ~IsNull(call.frames[1].info.plain)
  /\ call.frames[1].info.plain = FirstVisitOfCall.frames[1].info.plain
  /\ conv.rply.pos > FirstVisitOfCall.frames[1].post.conv.rply.pos

\* C9: a header block is fed to rply when the stream-id is even, to rply
\* for HEADERS and SYN_REPLY on an odd stream-id, and to rqst only for
\* SYN_STREAM on an odd stream-id; the other inflater is left alone.
C9_InflaterByStreamAndType ==
  \A i \in 1..Len(call.frames) :
    LET f == call.frames[i]
    IN f.info.fed # "none" =>
         /\ (f.info.stream_id % 2 = 0) => f.info.fed = "rply"
         /\ (f.info.stream_id % 2 = 1 /\ f.info.frame_type \in {SPDY_HEADERS, SPDY_SYN_REPLY})
              => f.info.fed = "rply"
         /\ f.info.fed = "rqst"
              => (f.info.stream_id % 2 = 1 /\ f.info.frame_type = SPDY_SYN_STREAM)
         /\ f.info.fed = "rply" => f.post.conv.rqst = f.pre.conv.rqst
         /\ f.info.fed = "rqst" => f.post.conv.rply = f.pre.conv.rply

\* C9 happens: a SYN_REPLY and then a HEADERS frame on stream 1 both moved rply
C9_Witness ==
  /\ Len(call.frames) = 2
  /\ call.frames[1].info.frame_type = SPDY_SYN_REPLY
  /\ call.frames[2].info.frame_type = SPDY_HEADERS
  /\ call.frames[2].info.stream_id = 1
  /\ call.frames[2].info.fed = "rply"
  /\ call.frames[2].post.conv.rply.pos = 2
  /\ call.frames[2].post.conv.rqst = InitZ

\* C10: a control frame with a valid type whose version is below 3 is
\* consumed as exactly length + 8 bytes, is marked "Unsupported Version" on
\* the tree being built, and leaves both inflaters, the stream store and the
\* memo as they were.
C10_OldVersionSkipped ==
  \A i \in 1..Len(call.frames) :
    LET f == call.frames[i]
    IN (f.info.control = 1 /\ f.info.frame_type < 11 /\ f.info.version < 3) =>
         /\ f.status = "ok"
         /\ f.ret = f.info.length + 8
         /\ Accepted(f)
         /\ call.ctx.tree => "Unsupported Version" \in f.info.marks
         /\ f.info.fed = "none"
         /\ f.post = f.pre

\* C10 happens: a version 2 SYN_REPLY with a header block was skipped
C10_Witness ==
  /\ call.ctx.tree
  /\ \E i \in 1..Len(call.frames) :
       /\ call.frames[i].info.version = 2
       /\ call.frames[i].info.frame_type = SPDY_SYN_REPLY
       /\ call.frames[i].info.length > 4
       /\ "Unsupported Version" \in call.frames[i].info.marks
       /\ call.frames[i].post.conv.rply = InitZ
       /\ call.ret >= call.frames[i].off + call.frames[i].info.length + 8

(***************************************************************************)
(* DATA frames and the stream store.                                       *)
(***************************************************************************)
IsDataFrame(f) == f.info.control = 0 /\ f.info.frame_type = SPDY_DATA

\* the payload of the frame logged as f in the buffer tvb
PayloadOf(tvb, f) == SubSeq(tvb, f.off + 9, f.off + 8 + f.info.length)

\* the stream record of stream s in the connection state cv, or NULL
RecordOf(cv, s) == spdy_get_stream_info(cv, s)

HasRecord(cv, s) == ~IsNull(RecordOf(cv, s))

\* the DATA frames of stream s among the logged frames fs of the buffer tvb,
\* dissected with the assemble-bodies setting `assemble`
RECURSIVE DataEntries(_, _, _, _)
DataEntries(fs, tvb, assemble, s) ==
  IF fs = <<>> THEN <<>>
  ELSE (IF IsDataFrame(Head(fs)) /\ Head(fs).info.stream_id = s
          THEN <<[payload |-> PayloadOf(tvb, Head(fs)),
                  fin |-> Head(fs).info.flags % 2 = 1,
                  assemble |-> assemble,
                  known |-> HasRecord(Head(fs).pre.conv, s)]>>
          ELSE <<>>)
       \o DataEntries(Tail(fs), tvb, assemble, s)

\* the DATA frames of stream s in the first visits of packets 1..n
RECURSIVE DataHistory(_, _)
DataHistory(n, s) ==
  IF n = 0 THEN <<>>
  ELSE DataHistory(n - 1, s)
         \o DataEntries(capture[n].first.frames, capture[n].tvb,
                        capture[n].first.prefs.assemble_entity_bodies, s)

\* the DATA frames of stream s dissected on first visits before frame i of
\* the last call, itself a first visit
EarlierData(i, s) ==
  DataHistory(call.pkt - 1, s)
    \o DataEntries(SubSeq(call.frames, 1, i - 1), call.tvb,
                   call.ctx.prefs.assemble_entity_bodies, s)

RECURSIVE ConcatPayloads(_)
ConcatPayloads(es) ==
  IF es = <<>> THEN <<>> ELSE Head(es).payload \o ConcatPayloads(Tail(es))

\* frame i of the last call is a DATA frame with FIN on a stream that has a
\* record, arriving with body assembly enabled after one or more DATA frames
\* without FIN, each of them dissected with body assembly enabled and the
\* record present
FinAfterChunks(i) ==
  /\ call.kind = "first"
  /\ IsDataFrame(call.frames[i])
  /\ call.frames[i].status = "ok"
  /\ call.frames[i].info.flags % 2 = 1
  /\ call.ctx.prefs.assemble_entity_bodies
  /\ HasRecord(call.frames[i].pre.conv, call.frames[i].info.stream_id)
  /\ EarlierData(i, call.frames[i].info.stream_id) # <<>>
  /\ \A k \in 1..Len(EarlierData(i, call.frames[i].info.stream_id)) :
       LET e == EarlierData(i, call.frames[i].info.stream_id)[k]
       IN ~e.fin /\ e.assemble /\ e.known

\* C11: with body assembly enabled and a record present for stream S at
\* every DATA frame of S, when a DATA frame with FIN arrives on S after
\* earlier DATA frames without FIN, the body assembled on the record is the
\* concatenation of the payloads of all DATA frames of S in first-visit
\* order, the payload of the FIN frame last.
C11_BodyIsConcatenationOfChunks ==
  \A i \in 1..Len(call.frames) :
    FinAfterChunks(i) =>
      RecordOf(call.frames[i].post.conv, call.frames[i].info.stream_id)[1].assembled_data
        = Ptr(ConcatPayloads(EarlierData(i, call.frames[i].info.stream_id))
                \o PayloadOf(call.tvb, call.frames[i]))

\* C11 happens: the FIN frame of packet 2 closes a body whose first chunk
\* came in packet 1, and the body has the three bytes of both payloads
C11_Witness ==
  /\ call.pkt = 2
  /\ \E i \in 1..Len(call.frames) :
       /\ FinAfterChunks(i)
       /\ DataHistory(1, call.frames[i].info.stream_id) # <<>>
       /\ RecordOf(call.frames[i].post.conv, 1)[1].assembled_data = Ptr(<<31, 7, 9>>)

\* frame f of the last call completes a body: a DATA frame with FIN and a
\* payload on a stream that has a record, with body assembly enabled
CompletesBody(f) ==
  /\ IsDataFrame(f)
  /\ f.status = "ok"
  /\ f.info.flags % 2 = 1
  /\ f.info.length > 0
  /\ call.ctx.prefs.assemble_entity_bodies
  /\ HasRecord(f.pre.conv, f.info.stream_id)

\* the first applicable sub-dissector in the order of the claim; the record
\* of a stream always holds a content_type
FirstApplicable(host) ==
  IF host.port_handle THEN "http.port"
  ELSE IF host.media_type_handle THEN "media_type"
  ELSE "media"

\* C12: for a completed body exactly one sub-dissector is invoked, the first
\* applicable of: the one for the port under "http.port", the one for the
\* stream's media type, "media" if a content_type was present, "data"
\* otherwise.  Refuted: after the media type's dissector has taken the body,
\* the "data" dissector is invoked as well, on the payload of the FIN frame.
C12_ExactlyOneSubDissector ==
  \A i \in 1..Len(call.frames) :
    CompletesBody(call.frames[i]) =>
      /\ Len(call.frames[i].info.calls) = 1
      /\ call.frames[i].info.calls[1].handle = FirstApplicable(call.ctx.host)

\* C13: a DATA frame whose FIN flag is clear never causes a sub-dissector to
\* be invoked, whatever the stream's record, chunk list and settings are; the
\* one annotation it can get is "(partial entity body)", which it gets
\* whenever it has a payload or the stream has counted DATA frames.
C13_NoSubDissectorWithoutFin ==
  \A i \in 1..Len(call.frames) :
    LET f == call.frames[i]
    IN (IsDataFrame(f) /\ f.info.flags % 2 = 0) =>
         /\ f.status = "ok"
         /\ f.info.calls = <<>>
         /\ f.info.marks \subseteq {"partial entity body"}
         /\ (f.info.length > 0
             \/ spdy_get_num_data_frames(f.pre.conv, f.info.stream_id) > 0)
              => f.info.marks = {"partial entity body"}

\* C13 happens: a DATA frame without FIN arrived on a stream whose body had
\* been assembled and dispatched, and on a revisit with assembly switched off
C13_Witness ==
  \E i \in 1..Len(call.frames) :
    /\ IsDataFrame(call.frames[i])
    /\ call.frames[i].info.flags % 2 = 0
    /\ HasRecord(call.frames[i].pre.conv, 1)
    /\ ~IsNull(RecordOf(call.frames[i].pre.conv, 1)[1].assembled_data)
    /\ call.frames[i].info.calls = <<>>
    /\ call.frames[i].info.marks = {"partial entity body"}
    /\ call.kind = "revisit"
    /\ ~call.ctx.prefs.assemble_entity_bodies

(***************************************************************************)
(* Control frames without a header block.                                  *)
(***************************************************************************)
IsControlFrame(f, type) ==
  f.info.control = 1 /\ f.info.version >= 3 /\ f.info.frame_type = type

\* C14: the status reported for an RST_STREAM frame is the 32-bit value in
\* payload bytes 4..7; a value outside 1..12 is annotated "Invalid status
\* code for RST_STREAM"; a frame of length 8 is consumed as 16 bytes.
\* Refuted: the status is read from payload bytes 0..3, where the stream-id
\* is, so status 99 on stream 1 is reported as status 1 and not annotated.
C14_RstStatusFromBytes4To7 ==
  \A i \in 1..Len(call.frames) :
    LET f == call.frames[i]
    IN (IsControlFrame(f, SPDY_RST_STREAM) /\ f.info.length = 8) =>
         /\ f.status = "ok"
         /\ f.ret = 16
         /\ f.info.rst_status = Ptr(tvb_get_ntohl(call.tvb, f.off + 12))
         /\ (tvb_get_ntohl(call.tvb, f.off + 12) \notin 1..12)
              => "Invalid status code for RST_STREAM" \in f.info.marks

\* num_entries of the SETTINGS frame logged as f: the first payload word
NumEntriesOf(tvb, f) == tvb_get_ntohl(tvb, f.off + 8)

\* C15: a SETTINGS frame is reported as malformed whenever length < 4 or
\* length < 4 + 8 * num_entries, so every SETTINGS frame that is not has all
\* of its entries inside its declared payload.  Refuted: the test leaves out
\* the 4 bytes of num_entries, so a frame of length 8 with one entry passes.
C15_SettingsEntriesInsidePayload ==
  \A i \in 1..Len(call.frames) :
    LET f == call.frames[i]
    IN (IsControlFrame(f, SPDY_SETTINGS)
        /\ (f.info.length < 4
            \/ f.info.length < 4 + 8 * NumEntriesOf(call.tvb, f)))
         => ReportsError(f)

(***************************************************************************)
(* Revisits and the life of a stream record.                               *)
(***************************************************************************)
\* C16: dissecting an already visited packet changes nothing in the stream
\* store, for every frame type and every setting of the preferences.
\* Refuted: a DATA frame with FIN that is dissected again assembles the
\* chunks stored since its first visit and releases chunk buffers.
C16_RevisitLeavesStreamStore ==
  call.kind = "revisit" =>
    \A i \in 1..Len(call.frames) :
      call.frames[i].post.conv.streams = call.frames[i].pre.conv.streams

\* every body assembled in the connection state cv1 is there, with the
\* same bytes, in cv2
AssembledKept(cv1, cv2) ==
  \A k \in 1..Len(cv1.streams) :
    (~IsNull(cv1.streams[k]) /\ ~IsNull(cv1.streams[k][1].assembled_data)) =>
      /\ k <= Len(cv2.streams)
      /\ ~IsNull(cv2.streams[k])
      /\ cv2.streams[k][1].assembled_data = cv1.streams[k][1].assembled_data

\* C17: for every stream, once assembled_data has been set it keeps the same
\* bytes: across every frame dissected, a first visit or a revisit, with or
\* without FIN, and across every call of dissect_spdy.
C17_AssembledBodyKept ==
  /\ \A i \in 1..Len(call.frames) :
       AssembledKept(call.frames[i].pre.conv, call.frames[i].post.conv)
  /\ AssembledKept(call.pre.conv, conv)

\* C17 happens: on a first visit a DATA frame with FIN was appended to the
\* chunks of a stream whose body had been assembled before, and the body is
\* the one assembled before
C17_Witness ==
  /\ call.kind = "first"
  /\ \E i \in 1..Len(call.frames) :
       /\ IsDataFrame(call.frames[i])
       /\ call.frames[i].info.flags % 2 = 1
       /\ HasRecord(call.frames[i].pre.conv, 1)
       /\ RecordOf(call.frames[i].pre.conv, 1)[1].assembled_data = Ptr(<<31, 7, 9>>)
       /\ Len(RecordOf(call.frames[i].post.conv, 1)[1].data_frames)
            = Len(RecordOf(call.frames[i].pre.conv, 1)[1].data_frames) + 1
       /\ RecordOf(call.frames[i].post.conv, 1)[1].assembled_data = Ptr(<<31, 7, 9>>)

\* in the connection state cv every stream record counts at least as many
\* DATA frames as its chunk list has entries
CountCoversChunks(cv) ==
  \A k \in 1..Len(cv.streams) :
    ~IsNull(cv.streams[k]) =>
      cv.streams[k][1].num_data_frames >= Len(cv.streams[k][1].data_frames)

\* C18: in every reachable state, between calls and between the frames of a
\* call, num_data_frames of every stream record is at least the number of
\* entries of its chunk list.
C18_CountCoversChunks ==
  /\ CountCoversChunks(conv)
  /\ \A i \in 1..Len(call.frames) : CountCoversChunks(call.frames[i].post.conv)

\* C18 happens: a stream has chunks, and more DATA frames counted than
\* chunks, after body assembly was switched off
C18_Witness ==
  /\ HasRecord(conv, 1)
  /\ Len(RecordOf(conv, 1)[1].data_frames) = 1
  /\ RecordOf(conv, 1)[1].num_data_frames = 3
  /\ ~prefs.assemble_entity_bodies

\* the DATA frame with FIN logged as f has caused the accumulated chunks of
\* its stream to be assembled
AssembledBy(f) ==
  /\ IsDataFrame(f)
  /\ f.status = "ok"
  /\ f.info.flags % 2 = 1
  /\ HasRecord(f.pre.conv, f.info.stream_id)
  /\ IsNull(RecordOf(f.pre.conv, f.info.stream_id)[1].assembled_data)
  /\ ~IsNull(RecordOf(f.post.conv, f.info.stream_id)[1].assembled_data)

\* C19: after a DATA frame with FIN has caused a stream's accumulated chunks
\* to be assembled, every chunk buffer of the stream has been released when
\* the frame's dissection returns, for every content-encoding and whether or
\* not body decompression succeeds.  Refuted: when an encoded body is not
\* inflated the chunks keep their buffers.
C19_ChunksReleasedAfterAssembly ==
  \A i \in 1..Len(call.frames) :
    AssembledBy(call.frames[i]) =>
      \A k \in 1..Len(RecordOf(call.frames[i].post.conv,
                               call.frames[i].info.stream_id)[1].data_frames) :
        IsNull(RecordOf(call.frames[i].post.conv,
                        call.frames[i].info.stream_id)[1].data_frames[k].data)

\* C20: a DATA frame on a stream that has no stream record stores no chunk,
\* changes no counter, triggers no body assembly and no sub-dissector, and is
\* consumed as length + 8 bytes.  Refuted in its last part: behind another
\* frame the DATA frame is dissected and the driver does not advance past it.
C20_DataWithoutRecordOnlyConsumed ==
  \A i \in 1..Len(call.frames) :
    LET f == call.frames[i]
    IN (IsDataFrame(f) /\ ~HasRecord(f.pre.conv, f.info.stream_id)) =>
         /\ f.status = "ok"
         /\ f.post = f.pre
         /\ f.info.calls = <<>>
         /\ f.info.marks \subseteq {"partial entity body"}
         /\ f.ret = f.info.length + 8
         /\ Returned => call.ret >= f.off + f.info.length + 8

IsTypeStop(c) == c \in {59, 32, 9, 10, 11, 12, 13}

RECURSIVE TypePrefix(_)
TypePrefix(s) ==
  IF s = <<>> \/ IsTypeStop(Head(s)) THEN <<>> ELSE <<Head(s)>> \o TypePrefix(Tail(s))

RECURSIVE SkipTypeStops(_)
SkipTypeStops(s) ==
  IF s = <<>> \/ ~IsTypeStop(Head(s)) THEN s ELSE SkipTypeStops(Tail(s))

LowerLetter(c) == IF c \in 65..90 THEN c + 32 ELSE c

TypeRemainder(s) == SkipTypeStops(SubSeq(s, Len(TypePrefix(s)) + 1, Len(s)))

\* C22: spdy_parse_content_type leaves in the string its prefix before the
\* first ';' or white space, in lower case, and returns what follows the run
\* of ';' and white space after that prefix, in its own case, or nothing when
\* nothing follows.
C22_ContentTypeSplit ==
  call.kind = "parsed" =>
    /\ call.out.content_type =
         [i \in 1..Len(TypePrefix(call.input)) |-> LowerLetter(call.input[i])]
    /\ call.out.params = IF TypeRemainder(call.input) = <<>>
                           THEN Null
                           ELSE Ptr(TypeRemainder(call.input))

\* C22 happens: "T;<tab>T" becomes "t" with the parameters "T", and "Tx;"
\* becomes "tx" with none
C22_Witness ==
  /\ call.kind = "parsed"
  /\ \/ /\ call.input = <<84, 59, 9, 84>>
        /\ call.out = [content_type |-> <<116>>, params |-> Ptr(<<84>>)]
     \/ /\ call.input = <<84, 120, 59>>
        /\ call.out = [content_type |-> <<116, 120>>, params |-> Null]

(***************************************************************************)
(* Header blocks.                                                          *)
(***************************************************************************)
\* spdy_save_stream_info was called for the frame logged as f
SaveCalled(f) == f.info.saved \/ "DISSECTOR_ASSERT" \in f.info.marks

\* C23: on first visits spdy_save_stream_info is never called for a stream-id
\* that already holds a record, so that its assertion holds and no exception
\* leaves the frame, also when several header frames of one stream carry a
\* content-type.  Refuted: the second such frame of a stream calls it again.
C23_RecordSavedOnce ==
  \A i \in 1..Len(call.frames) :
    (IsHeaderFrame(call.frames[i]) /\ SaveCalled(call.frames[i])) =>
      /\ ~HasRecord(call.frames[i].pre.conv, call.frames[i].info.stream_id)
      /\ call.frames[i].status = "ok"

\* the content-encoding ce of a stream record is absent, empty or "identity"
NotEncoded(ce) ==
  \/ IsNull(ce)
  \/ Deref(ce) = <<>>
  \/ [i \in 1..Len(Deref(ce)) |-> LowerLetter(Deref(ce)[i])] = STR_identity

\* C24: a completed body whose stream has content_encoding absent, empty or
\* "identity" in any letter case is not treated as encoded and goes undecoded
\* to the first applicable sub-dissector; only a present, non-empty,
\* non-identity encoding takes the encoded-entity path.  Refuted: the empty
\* encoding takes the encoded-entity path.
C24_OnlyNamedEncodingIsEncoded ==
  \A i \in 1..Len(call.frames) :
    CompletesBody(call.frames[i]) =>
      IF NotEncoded(RecordOf(call.frames[i].pre.conv,
                             call.frames[i].info.stream_id)[1].content_encoding)
        THEN /\ "Content-encoded entity body" \notin call.frames[i].info.marks
             /\ call.frames[i].info.calls # <<>>
             /\ call.frames[i].info.calls[1].handle = FirstApplicable(call.ctx.host)
        ELSE "Content-encoded entity body" \in call.frames[i].info.marks

(***************************************************************************)
(* The assembled body of a single DATA frame.                              *)
(***************************************************************************)
\* C25: after a DATA frame with FIN and a non-empty body on a stream that has
\* a record, the record's assembled_data is set, and when that frame is the
\* stream's only DATA frame it is the frame's payload.  Refuted: a FIN frame
\* that is the only DATA frame of its stream leaves assembled_data NULL.
C25_AssembledBodySetAtFin ==
  \A i \in 1..Len(call.frames) :
    (CompletesBody(call.frames[i]) /\ ~call.ctx.visited) =>
      /\ ~IsNull(RecordOf(call.frames[i].post.conv,
                          call.frames[i].info.stream_id)[1].assembled_data)
      /\ RecordOf(call.frames[i].pre.conv,
                  call.frames[i].info.stream_id)[1].num_data_frames = 0 =>
           RecordOf(call.frames[i].post.conv,
                    call.frames[i].info.stream_id)[1].assembled_data
             = Ptr(PayloadOf(call.tvb, call.frames[i]))

(***************************************************************************)
(* Header blocks that do not decompress or do not parse.                   *)
(***************************************************************************)
\* the inflater that the block of the frame logged as f was given to
FedInflater(f) == IF f.info.fed = "rqst" THEN f.pre.conv.rqst ELSE f.pre.conv.rply

\* the block of the frame logged as f was given to an inflater, which failed
InflationFails(tvb, f) ==
  /\ IsHeaderFrame(f)
  /\ f.info.fed # "none"
  /\ ~spdy_decompress_header_block(FedInflater(f), f.pre.conv.dictionary_id,
                                   HeaderBlockOf(tvb, f)).ok

\* C26: when the decompression of a header block fails, the frame reports a
\* decompression error, no memo entry is stored for it, no name/value pair is
\* parsed and no stream record is saved.
C26_FailedInflationStoresNothing ==
  \A i \in 1..Len(call.frames) :
    InflationFails(call.tvb, call.frames[i]) =>
      /\ ReportsError(call.frames[i])
      /\ "Inflation failed" \in call.frames[i].info.marks
      /\ call.frames[i].post.pfd = call.frames[i].pre.pfd
      /\ call.frames[i].info.pairs = 0
      /\ IsNull(call.frames[i].info.plain)
      /\ ~call.frames[i].info.saved
      /\ call.frames[i].post.conv.streams = call.frames[i].pre.conv.streams

\* C26 happens: a HEADERS frame whose block is no deflate data, behind a
\* frame that was accepted
C26_Witness ==
  /\ Len(call.frames) = 2
  /\ Accepted(call.frames[1])
  /\ call.frames[2].info.frame_type = SPDY_HEADERS
  /\ InflationFails(call.tvb, call.frames[2])
  /\ ReportsError(call.frames[2])
  /\ HeaderBlockOf(call.tvb, call.frames[2]) = <<9, 9, 9, 9>>
  /\ call.frames[2].post.conv.rply.mode = "BAD"

\* the inflater that was fed, after the frame logged as f
FedInflaterAfter(f) == IF f.info.fed = "rqst" THEN f.post.conv.rqst ELSE f.post.conv.rply

\* what the first inflate() of the block of the frame logged as f returns
FirstInflate(tvb, f) == inflate(FedInflater(f), HeaderBlockOf(tvb, f))

\* the first inflate() of f's block asks for a preset dictionary
NeedsDictionary(tvb, f) ==
  /\ IsHeaderFrame(f)
  /\ f.info.fed # "none"
  /\ FirstInflate(tvb, f).ret = "Z_NEED_DICT"

\* C27: when the inflater asks for a dictionary, the SPDY dictionary is
\* installed and inflation retried only if the Adler-32 the inflater asks for
\* equals the connection's cached dictionary id; if they differ, no
\* dictionary is installed and the block is reported as a decompression
\* failure.
C27_DictionaryOnlyForCachedId ==
  \A i \in 1..Len(call.frames) :
    NeedsDictionary(call.tvb, call.frames[i]) =>
      IF FirstInflate(call.tvb, call.frames[i]).z.adler
           = call.frames[i].pre.conv.dictionary_id
        THEN FedInflaterAfter(call.frames[i])
               = inflate([FirstInflate(call.tvb, call.frames[i]).z EXCEPT !.mode = "RUN"],
                         FirstInflate(call.tvb, call.frames[i]).rest).z
        ELSE /\ FedInflaterAfter(call.frames[i]) = FirstInflate(call.tvb, call.frames[i]).z
             /\ FedInflaterAfter(call.frames[i]).mode = "DICT"
             /\ ReportsError(call.frames[i])
             /\ "Inflation failed" \in call.frames[i].info.marks

\* C27 happens: a reply compressed with the dictionary of id 1 is refused
C27_Witness ==
  /\ call.frames # <<>>
  /\ NeedsDictionary(call.tvb, call.frames[1])
  /\ call.tvb = F_REPLY_OTHERDICT
  /\ FirstInflate(call.tvb, call.frames[1]).z.adler = 1
  /\ conv.dictionary_id = SpdyDictionaryAdler
  /\ conv.rply.mode = "DICT"
  /\ ReportsError(call.frames[1])

\* the plaintext of the frame logged as f declares more pairs than the
\* frame's length, both taken as unsigned 32-bit numbers
DeclaresTooManyPairs(f) ==
  /\ IsHeaderFrame(f)
  /\ ~IsNull(f.info.plain)
  /\ Len(Deref(f.info.plain)) >= 4
  /\ \/ Deref(f.info.plain)[1] >= 128
     \/ Deref(f.info.plain)[1] * 16777216 + Deref(f.info.plain)[2] * 65536
          + Deref(f.info.plain)[3] * 256 + Deref(f.info.plain)[4] > f.info.length

\* C28: when the decompressed block declares more pairs than the frame's
\* length, the frame gets a malformed error, no name/value pair is parsed, no
\* stream record is saved, and the frame is consumed as length + 8 bytes.
C28_TooManyPairsIsMalformed ==
  \A i \in 1..Len(call.frames) :
    DeclaresTooManyPairs(call.frames[i]) =>
      /\ "Number of headers is greater than frame length" \in call.frames[i].info.marks
      /\ call.frames[i].info.pairs = 0
      /\ ~call.frames[i].info.saved
      /\ call.frames[i].post.conv.streams = call.frames[i].pre.conv.streams
      /\ call.frames[i].status = "ok"
      /\ call.frames[i].ret = call.frames[i].info.length + 8

\* C28 happens: a reply of length 16 whose plaintext declares 255 pairs is
\* consumed and the frame behind it is dissected
C28_Witness ==
  /\ Len(call.frames) = 2
  /\ DeclaresTooManyPairs(call.frames[1])
  /\ call.frames[1].info.length = 16
  /\ Deref(call.frames[1].info.plain) = <<0, 0, 0, 255>>
  /\ call.frames[1].ret = 24
  /\ call.frames[2].off = 24

\* the number of pairs the plaintext pt declares, for a count below 2^31
DeclaredPairs(pt) == pt[1] * 16777216 + pt[2] * 65536 + pt[3] * 256 + pt[4]

\* the plaintext of the frame logged as f ends before the pairs it declares
\* have been read
PlaintextRunsOut(f) ==
  /\ IsHeaderFrame(f)
  /\ ~IsNull(f.info.plain)
  /\ Len(Deref(f.info.plain)) >= 4
  /\ ~DeclaresTooManyPairs(f)
  /\ f.info.pairs < DeclaredPairs(Deref(f.info.plain))

\* C29: when the plaintext ends before num_pairs pairs have been read, at a
\* pair boundary or inside a pair, the parser stops, the frame is annotated
\* with the underflow, and no byte beyond the plaintext is read.  Refuted: at
\* a pair boundary the loop ends with no annotation at all.
C29_ShortPlaintextReportsUnderflow ==
  \A i \in 1..Len(call.frames) :
    PlaintextRunsOut(call.frames[i]) =>
      /\ call.frames[i].status = "ok"
      /\ call.frames[i].info.marks # {}

(***************************************************************************)
(* The inflaters of a connection state.                                    *)
(***************************************************************************)
\* C30: every connection state has both inflaters allocated and initialized
\* from its creation on, so that the inflater selected for a header block is
\* initialized when it is used, also when header decompression is switched
\* on after the connection state was created.  Refuted: a connection state
\* created while header decompression is off has neither inflater.
C30_InflatersExistFromCreation ==
  /\ conv.exists => (conv.rqst.alloc /\ conv.rply.alloc)
  /\ \A i \in 1..Len(call.frames) :
       (IsHeaderFrame(call.frames[i]) /\ call.ctx.prefs.decompress_headers
          /\ ~call.frames[i].info.memo_hit) =>
         (IF SelectDecompressor(call.frames[i].info.stream_id,
                                call.frames[i].info.frame_type) = "rqst"
            THEN call.frames[i].pre.conv.rqst.alloc
            ELSE call.frames[i].pre.conv.rply.alloc)

(***************************************************************************)
(* The capture-end hook.                                                   *)
(***************************************************************************)
\* an inflater that exists is in the state inflateInit leaves it in
InInitialState(z) == z.alloc => z = InitZ

\* C31: after the capture-end hook has run, both inflaters of the connection
\* are back in their initial state, and running it again changes nothing
\* further.  Refuted: the hook leaves the inflaters as they are.
C31_HookResetsInflaters ==
  call.kind = "cleanup" =>
    /\ InInitialState(conv.rqst)
    /\ InInitialState(conv.rply)
    /\ reset_decompressors(conv) = conv

(***************************************************************************)
(* Termination of the driver loop.                                         *)
(***************************************************************************)
\* the last frame handed to dissect_spdy_frame in the call
LastFrame == call.frames[Len(call.frames)]

SameSettings(p, q) ==
  /\ p.assemble_entity_bodies = q.assemble_entity_bodies
  /\ p.decompress_headers = q.decompress_headers
  /\ p.decompress_body = q.decompress_body

\* C33: for every DATA frame with FIN, the body dispatched when its packet is
\* revisited is the body dispatched on its first visit, whatever DATA frames
\* the stream has seen in between.  Refuted: a DATA frame that arrived on the
\* stream after the first visit is assembled into the body of the revisit.
C33_RevisitDispatchesSameBody ==
  (call.kind = "revisit"
     /\ SameSettings(call.ctx.prefs, capture[call.pkt].first.prefs)) =>
    \A i \in 1..Len(call.frames) :
      (IsDataFrame(call.frames[i]) /\ call.frames[i].info.flags % 2 = 1
         /\ i <= Len(capture[call.pkt].first.frames)) =>
        call.frames[i].info.calls = capture[call.pkt].first.frames[i].info.calls

\* C34: dissecting an already visited packet feeds no block to an inflater
\* and leaves both inflaters in the state they were in before, also for a
\* header frame whose decompression failed on the first visit.  Refuted: a
\* header frame that has no memo entry is decompressed on the revisit.
C34_RevisitFeedsNoInflater ==
  call.kind = "revisit" =>
    /\ \A i \in 1..Len(call.frames) : call.frames[i].info.fed = "none"
    /\ conv.rqst = call.pre.conv.rqst
    /\ conv.rply = call.pre.conv.rply

(***************************************************************************)
(* DATA frames of length 0.                                                *)
(***************************************************************************)
\* C35: every sub-dissector invoked for a DATA frame is given a buffer, also
\* for a DATA frame of length 0 with FIN that closes a stream which already
\* has DATA frames, with body assembly enabled or disabled.  Refuted: for
\* such a frame there is no buffer of the frame's own bytes, and it is what
\* the last sub-dissector is given.
C35_SubDissectorsGetBuffer ==
  \A i \in 1..Len(call.frames) :
    IsDataFrame(call.frames[i]) =>
      \A k \in 1..Len(call.frames[i].info.calls) :
        ~IsNull(call.frames[i].info.calls[k].tvb)

(***************************************************************************)
(* Lengths.                                                                *)
(***************************************************************************)
\* the bytes of a header frame in front of its header block
FixedFieldsOf(f) == IF f.info.frame_type = SPDY_SYN_STREAM THEN 10 ELSE 4

\* the frame logged as f is a header frame too short for its fixed fields
ShortHeaderFrame(f) == IsHeaderFrame(f) /\ f.info.length < FixedFieldsOf(f)

\* C36: the header block length handed to the inflater is never negative: a
\* SYN_STREAM frame of length below 10 and a SYN_REPLY or HEADERS frame of
\* length below 4 do not reach decompression.  Refuted: with one byte
\* missing the block length is -1 and the inflater is handed 2^32 - 1 bytes.
C36_ShortHeaderFrameNotInflated ==
  \A i \in 1..Len(call.frames) :
    (ShortHeaderFrame(call.frames[i])
       /\ call.frames[i].pre.conv.rqst.alloc /\ call.frames[i].pre.conv.rply.alloc) =>
      /\ call.frames[i].status # "crash"
      /\ call.frames[i].info.fed = "none"
      /\ call.frames[i].post.conv.rqst = call.frames[i].pre.conv.rqst
      /\ call.frames[i].post.conv.rply = call.frames[i].pre.conv.rply

\* C37: for every 32-bit num_entries of a SETTINGS frame the size check is
\* that of 8 * num_entries computed without wraparound or change of sign: a
\* frame that passes it has at most length / 8 entries, and values of 2^29
\* and above are rejected.  Refuted: the product is an int, and a num_entries
\* of 2^31 and above is negative and passes the check.
C37_SettingsCheckAsUnsigned ==
  (call.kind = "settings" /\ call.out.ret # -1) =>
    /\ call.tvb[9] = 0
    /\ 8 * (call.tvb[10] * 65536 + call.tvb[11] * 256 + call.tvb[12]) <= call.length

(***************************************************************************)
(* Released chunks.                                                        *)
(***************************************************************************)
\* in the connection state cv every stream with a released chunk buffer has
\* its assembled body
ReleasedImpliesAssembled(cv) ==
  \A k \in 1..Len(cv.streams) :
    (~IsNull(cv.streams[k])
       /\ \E j \in 1..Len(cv.streams[k][1].data_frames) :
            IsNull(cv.streams[k][1].data_frames[j].data)) =>
      ~IsNull(cv.streams[k][1].assembled_data)

\* C38: in every reachable state, between calls and between the frames of a
\* call, a stream with a released chunk buffer has its assembled_data set,
\* and no DATA frame makes the assembly copy from a released chunk, also
\* when DATA frames arrive on the stream after its body was assembled.
C38_ReleasedChunksAreAssembled ==
  /\ ReleasedImpliesAssembled(conv)
  /\ \A i \in 1..Len(call.frames) :
       /\ ReleasedImpliesAssembled(call.frames[i].post.conv)
       /\ IsDataFrame(call.frames[i]) => call.frames[i].status # "crash"

\* C38 happens: a DATA frame with FIN arrives on a stream whose body was
\* assembled and whose two chunks were released, is stored as a third chunk,
\* and the assembly leaves the chunks alone
C38_Witness ==
  /\ call.kind = "first"
  /\ \E i \in 1..Len(call.frames) :
       /\ IsDataFrame(call.frames[i])
       /\ call.frames[i].info.flags % 2 = 1
       /\ call.frames[i].status = "ok"
       /\ HasRecord(call.frames[i].pre.conv, 1)
       /\ Len(RecordOf(call.frames[i].pre.conv, 1)[1].data_frames) = 2
       /\ \A j \in 1..2 :
            IsNull(RecordOf(call.frames[i].pre.conv, 1)[1].data_frames[j].data)
       /\ ~IsNull(RecordOf(call.frames[i].pre.conv, 1)[1].assembled_data)
       /\ Len(RecordOf(call.frames[i].post.conv, 1)[1].data_frames) = 3

(***************************************************************************)
(* One inflater per header block.                                          *)
(***************************************************************************)
\* the frame types the claim lists as having no header block
NoBlockTypes ==
  {SPDY_RST_STREAM, SPDY_SETTINGS, SPDY_NOOP, SPDY_PING, SPDY_GOAWAY,
   SPDY_WINDOW_UPDATE, SPDY_CREDENTIAL}

HasNoBlock(f) ==
  IsDataFrame(f) \/ (f.info.control = 1 /\ f.info.frame_type \in NoBlockTypes)

\* C39: a frame whose header block is decompressed leaves the inflater that
\* was not selected for it as it was, and a DATA, RST_STREAM, SETTINGS, NOOP,
\* PING, GOAWAY, WINDOW_UPDATE or CREDENTIAL frame leaves both inflaters as
\* they were.
C39_OnlySelectedInflaterChanges ==
  \A i \in 1..Len(call.frames) :
    /\ call.frames[i].info.fed = "rqst" =>
         call.frames[i].post.conv.rply = call.frames[i].pre.conv.rply
    /\ call.frames[i].info.fed = "rply" =>
         call.frames[i].post.conv.rqst = call.frames[i].pre.conv.rqst
    /\ HasNoBlock(call.frames[i]) =>
         /\ call.frames[i].post.conv.rqst = call.frames[i].pre.conv.rqst
         /\ call.frames[i].post.conv.rply = call.frames[i].pre.conv.rply

\* C39 happens: the first frame's block advanced the reply inflater, and the
\* second frame's block advances the request inflater and leaves the reply
\* inflater where the first frame left it
C39_Witness ==
  /\ call.kind = "first"
  /\ Len(call.frames) = 2
  /\ call.frames[1].info.fed = "rply"
  /\ call.frames[1].post.conv.rply # call.frames[1].pre.conv.rply
  /\ call.frames[2].info.fed = "rqst"
  /\ call.frames[2].post.conv.rqst # call.frames[2].pre.conv.rqst
  /\ call.frames[2].post.conv.rply = call.frames[1].post.conv.rply

(***************************************************************************)
(* What a declined buffer leaves behind.                                   *)
(***************************************************************************)
\* C40: when dissect_spdy_heur returns FALSE the connection state is what it
\* was before the call (none created, no inflater advanced, no stream record
\* or chunk added) and the packet has no memo entry.
C40_DeclineLeavesNoState ==
  (call.kind = "heur" /\ call.status = "ok" /\ ~call.claimed) =>
    /\ conv = call.pre.conv
    /\ capture[1].pfd = <<>>

====
